---- MODULE Spec2Model ----
(***************************************************************************)
(* Window-state synchronisation and application matching of the Ignis bar  *)
(* (ignis/modules/bar/widgets): the WindowMatcher function library and the *)
(* WindowDetector with its Hyprland IPC listener thread, the BadgeCounter   *)
(* and the WindowPreviewManager.                                           *)
(*                                                                         *)
(* Python strings are sequences of one-character strings, so strip(),      *)
(* lower(), `in`, len() and replace() are computed, not assumed.           *)
(***************************************************************************)
EXTENDS Integers, Sequences, FiniteSets, TLC

VARIABLES
    \* ---- WindowMatcher harness (pure functions applied to drawn inputs)
    m_apps,     \* applications_service.apps: the registry, in iteration order
    m_win,      \* the window handed to the single-window operations
    m_list,     \* the window list handed to group_windows_by_app
    m_op,       \* which operation has been applied ("none" before any)
    m_found,    \* result of _find_matching_app: <<>> (None) or <<app>>
    m_key,      \* result of _create_group_key
    m_match,    \* result of matches_window_to_app, per registry position
    m_groups,   \* result of group_windows_by_app
    \* ---- environment of the WindowDetector
    env_ok,             \* XDG_RUNTIME_DIR and HYPRLAND_INSTANCE_SIGNATURE are set
    hypr_windows,       \* hyprland.windows: addresses of the open windows
    closed_handlers,    \* per window, how many "closed" handlers are connected
    timers,             \* GLib: ids of the timeout sources pending in the loop
    firing,             \* GLib: id of the source being dispatched, 0 if none
    clock,              \* time.time()
    \* ---- WindowDetector
    subscribers,        \* _subscribers
    ipc_listener,       \* _ipc_listener: "none" or "held"
    connected_windows,  \* _connected_windows
    update_timeout_id,  \* _update_timeout_id, 0 for None
    current_state,      \* _current_state: a reference into heap
    heap,               \* the WindowState objects, by reference
    \* ---- HyprlandIPCListener (the one the detector holds or held last)
    stop_event,         \* _stop_event.is_set()
    lt_pc,              \* position of _listener_thread; "none": no thread
    lt_new,             \* listener thread: id returned by timeout_add, not stored yet
    \* ---- the event-loop thread
    pc,                 \* position of the handler running on the loop, or "idle"
    mt_new,             \* loop thread: id returned by timeout_add, not stored yet
    round,              \* _notify_subscribers: copy of the set, still to be called
    \* ---- observation (what callers saw; no code reads these)
    calls,              \* callback invocations made by the step just taken
    published,          \* references handed out: delivered or returned
    round_subs,         \* the subscribers when the current round started
    round_called,       \* callbacks invoked in the current round
    round_raised,       \* callbacks that raised in the current round
    burst,              \* the burst of raw events in progress and its recomputations
    cleaned,            \* cleanup() has been called
    n_events,           \* raw events so far
    \* ---- BadgeCounter
    b_state,            \* the WindowState the detector holds
    b_cached,           \* _cached_badges
    b_last_time,        \* _last_state_time
    b_call,             \* observation: the last call, its arguments and result
    \* ---- WindowPreviewManager
    p_active,           \* _active_popovers: per application id a popover, 0 if none
    p_hover,            \* _hover_timeouts: per application id a source id, 0 if none
    p_hide,             \* _hide_timeouts: per application id a source id, 0 if none
    p_timers,           \* GLib: the timeout sources pending in the loop
    p_live,             \* the popovers created and not closed
    p_call,             \* observation: the last call or timeout
    \* ---- HyprlandIPCListener by itself
    l_thread,           \* _thread: a position in l_threads, 0 for None
    l_threads,          \* the threads started, each with its position and line
    l_stop,             \* _stop_event.is_set()
    l_owner,            \* the owner: "idle", or "join" inside stop()
    l_lines,            \* observation: the lines handled, in order
    l_log,              \* observation: the callback invocations, in order
    l_stopped,          \* observation: a stop() has returned
    \* ---- observation of the detector's raw events
    unprocessed,        \* a raw event arrived and no recomputation started since
    \* ---- the taskbar entries over the preview manager
    h_hovering,         \* per application, _is_hovering of its entry widget
    h_deferred,         \* per application, the idle callback _schedule_preview_show
    h_gone,             \* observation: the pointer left the entry and has not come back
    h_events,           \* observation: pointer events and rebuilds so far
    \* ---- AppOrderManager
    o_order,            \* _order
    o_save_scheduled,   \* _save_scheduled
    o_file,             \* the list in the file at _config_path
    o_call              \* observation: the last call, its arguments and result

mvars == <<m_apps, m_win, m_list, m_op, m_found, m_key, m_match, m_groups>>

envvars == <<env_ok, hypr_windows, closed_handlers, timers, firing, clock>>

detvars == <<subscribers, ipc_listener, connected_windows, update_timeout_id,
             current_state, heap>>

thrvars == <<stop_event, lt_pc, lt_new, pc, mt_new, round>>

obsvars == <<calls, published, round_subs, round_called, round_raised,
             burst, cleaned, n_events, unprocessed>>

dvars == <<envvars, detvars, thrvars, obsvars>>

bvars == <<b_state, b_cached, b_last_time, b_call>>

pvars == <<p_active, p_hover, p_hide, p_timers, p_live, p_call>>

lvars == <<l_thread, l_threads, l_stop, l_owner, l_lines, l_log, l_stopped>>

hvars == <<h_hovering, h_deferred, h_gone, h_events>>

ovars == <<o_order, o_save_scheduled, o_file, o_call>>

vars == <<mvars, dvars, bvars, pvars, lvars, hvars, ovars>>

-----------------------------------------------------------------------------
(* Bounds of the model *)

MaxApps == 2       \* applications in a registry
MaxWindows == 2    \* windows in a list handed to group_windows_by_app
MaxOpen == 1       \* windows the window manager opens while the detector runs
MaxEvents == 2     \* raw events (window added, window closed, IPC record)
MaxStamp == 2      \* recomputations the badge counter sees
MaxLive == 2       \* popovers live at once
MaxThreads == 2    \* threads one listener starts
MaxLines == 2      \* lines one listener handles
MaxHover == 3      \* pointer events and rebuilds of the taskbar entries
MaxOrder == 2      \* entries of the order list in the file
MaxPinned == 2     \* pinned applications

-----------------------------------------------------------------------------
(* Python str operations *)

Uppers == <<"A","B","C","D","E","F","G","H","I","J","K","L","M",
            "N","O","P","Q","R","S","T","U","V","W","X","Y","Z">>
Lowers == <<"a","b","c","d","e","f","g","h","i","j","k","l","m",
            "n","o","p","q","r","s","t","u","v","w","x","y","z">>

Whitespace == {" ", "\t", "\n"}

UpperSet == {Uppers[i] : i \in 1..26}

LowerOf == [c \in UpperSet |-> Lowers[CHOOSE i \in 1..26 : Uppers[i] = c]]

LowerChar(c) == IF c \in UpperSet THEN LowerOf[c] ELSE c

\* str.lower()
Lower(s) == [i \in 1..Len(s) |-> LowerChar(s[i])]

\* str.strip(): leading and trailing whitespace removed
Strip(s) ==
    LET keep == {i \in 1..Len(s) : s[i] \notin Whitespace}
    IN  IF keep = {} THEN <<>>
        ELSE LET lo == CHOOSE i \in keep : \A j \in keep : i <= j
                 hi == CHOOSE i \in keep : \A j \in keep : j <= i
             IN  SubSeq(s, lo, hi)

\* a in b  (substring test; the empty string is in every string)
IsSub(a, b) ==
    \E i \in 0..(Len(b) - Len(a)) : SubSeq(b, i + 1, i + Len(a)) = a

\* s.replace(pat, ''): every non-overlapping occurrence removed, left to right
RECURSIVE Remove(_, _)
Remove(s, pat) ==
    IF Len(s) < Len(pat) \/ Len(pat) = 0 THEN s
    ELSE IF SubSeq(s, 1, Len(pat)) = pat
         THEN Remove(SubSeq(s, Len(pat) + 1, Len(s)), pat)
         ELSE <<s[1]>> \o Remove(SubSeq(s, 2, Len(s)), pat)

DotDesktop == <<".","d","e","s","k","t","o","p">>

(* The strings the inputs are built from *)

\* U+2014 EM DASH, written in ASCII: no letter, not whitespace
EmDash == "="

sEmpty      == <<>>
sFirefox    == <<"f","i","r","e","f","o","x">>
sFirefoxCap == <<"F","i","r","e","f","o","x">>
sFirefoxD   == <<"f","i","r","e","f","o","x",".","d","e","s","k","t","o","p">>
sEsrD       == <<"f","i","r","e","f","o","x","-","e","s","r",".","d","e","s","k","t","o","p">>
sEsrName    == <<"F","i","r","e","f","o","x"," ","E","S","R">>
sCodeD      == <<"c","o","d","e",".","d","e","s","k","t","o","p">>
sCode       == <<"c","o","d","e">>
sCodeCap    == <<"C","o","d","e">>
sCodePadded == <<" ","C","o","d","e"," ">>
sOrgVimId   == <<"o","r","g",".","d","e","s","k","t","o","p",".","v","i","m">>
sOrgVim     == <<"o","r","g",".","v","i","m">>
sVimCap     == <<"V","i","m">>
sFire       == <<"f","i","r","e">>
sMozilla    == <<"M","o","z","i","l","l","a"," ","F","i","r","e","f","o","x">>
sDocument   == <<"D","o","c","u","m","e","n","t",".","p","d","f"," ",EmDash," ","F","i","r","e","f","o","x">>
sNotes      == <<"n","o","t","e","s",".","t","x","t"," ","-"," ","v","i","m">>
sMain       == <<"m","a","i","n">>

IndexedDesktopName == sCodeCap

-----------------------------------------------------------------------------
(* WindowMatcher *)

\* (text or "").strip().lower()
normalize_string(text) == Lower(Strip(text))

normalize_app_id(app_id) == normalize_string(app_id)

\* A window attribute the object does not have reads as "" (getattr default).
\* Hyprland windows carry the snake_case names; "initialTitle" and "class"
\* are the aliases tried second and are absent.
WinInitialTitle(w) == w.initial_title
WinClassOrInitial(w) == IF w.class_name # <<>> THEN w.class_name ELSE w.initial_class

matches_window_to_app(window, app) ==
    LET app_id_norm   == normalize_app_id(app.id)
        app_name_norm == normalize_string(app.name)
        initial_title == normalize_string(WinInitialTitle(window))
        initial_class == normalize_string(window.initial_class)
        window_class  == normalize_string(window.class_name)
        window_app_id == normalize_string(window.app_id)
        window_title  == normalize_string(window.title)
    IN  \/ initial_title # <<>> /\ app_name_norm # <<>> /\ initial_title = app_name_norm
        \/ window_app_id # <<>> /\ window_app_id = app_id_norm
        \/ initial_class # <<>> /\ initial_class = app_id_norm
        \/ window_class # <<>> /\ window_class = app_id_norm
        \/ window_title # <<>> /\ app_name_norm # <<>> /\ IsSub(app_name_norm, window_title)
        \/ app_id_norm # <<>> /\
              \/ window_class # <<>> /\ IsSub(app_id_norm, window_class)
              \/ initial_class # <<>> /\ IsSub(app_id_norm, initial_class)

\* min(xs, key=lambda app: len(app.id)): the first element of least key
MinByIdLen(xs) ==
    LET i == CHOOSE i \in 1..Len(xs) :
                 /\ \A j \in 1..Len(xs) : Len(xs[i].id) <= Len(xs[j].id)
                 /\ \A j \in 1..(i - 1) : Len(xs[j].id) > Len(xs[i].id)
    IN  xs[i]

ClassExact(app, class_name_lc) ==
    LET app_id_lc   == Lower(app.id)
        app_id_base == Remove(app_id_lc, DotDesktop)
    IN  app_id_lc # <<>> /\ (app_id_base = class_name_lc \/ app_id_lc = class_name_lc)

ClassSubstring(app, class_name_lc) ==
    LET app_id_lc == Lower(app.id)
    IN  app_id_lc # <<>> /\ ~ClassExact(app, class_name_lc) /\ IsSub(class_name_lc, app_id_lc)

_get_app_by_class(class_name, apps) ==
    IF class_name = <<>> THEN <<>>
    ELSE LET class_name_lc     == Lower(class_name)
             exact_matches     == SelectSeq(apps, LAMBDA a : ClassExact(a, class_name_lc))
             substring_matches == SelectSeq(apps, LAMBDA a : ClassSubstring(a, class_name_lc))
         IN  IF exact_matches # <<>> THEN <<MinByIdLen(exact_matches)>>
             ELSE IF substring_matches # <<>> THEN <<MinByIdLen(substring_matches)>>
             ELSE <<>>

_get_app_by_title(title, apps) ==
    IF title = <<>> THEN <<>>
    ELSE LET title_lc == Lower(title)
             hits == SelectSeq(apps, LAMBDA a : Lower(a.name) # <<>> /\ Lower(a.name) = title_lc)
         IN  IF hits # <<>> THEN <<hits[1]>> ELSE <<>>

_find_matching_app(window, apps) ==
    LET initial_title == WinInitialTitle(window)
        class_name    == WinClassOrInitial(window)
        by_title == IF initial_title # <<>>
                    THEN _get_app_by_title(Strip(initial_title), apps) ELSE <<>>
        by_class == IF class_name # <<>>
                    THEN _get_app_by_class(Strip(class_name), apps) ELSE <<>>
    IN  IF by_title # <<>> THEN by_title ELSE by_class

\* Mutant: rule 2 without the length threshold.
CreateGroupKey_NoLength(app, initial_title, current_title) ==
    LET app_name_norm == normalize_string(app.name)
    IN  IF /\ initial_title # <<>>
           /\ initial_title # app_name_norm
           /\ ~IsSub(initial_title, app_name_norm)
           /\ ~IsSub(app_name_norm, initial_title)
        THEN app.id \o <<":">> \o initial_title
        ELSE IF /\ current_title # <<>> /\ initial_title # <<>>
                /\ current_title # initial_title
                /\ ~IsSub(current_title, initial_title)
        THEN app.id \o <<":">> \o current_title
        ELSE IF initial_title # <<>> /\
                (initial_title = app_name_norm \/ IsSub(app_name_norm, initial_title))
        THEN app.id \o <<":">> \o sMain
        ELSE app.id

\* Mutant: rule 1 accepts an initial title that contains the application name.
CreateGroupKey_TitleMayContainName(app, initial_title, current_title) ==
    LET app_name_norm == normalize_string(app.name)
    IN  IF /\ initial_title # <<>>
           /\ initial_title # app_name_norm
           /\ ~IsSub(initial_title, app_name_norm)
        THEN app.id \o <<":">> \o initial_title
        ELSE IF /\ current_title # <<>> /\ initial_title # <<>>
                /\ current_title # initial_title
                /\ Len(current_title) > 10
                /\ ~IsSub(current_title, initial_title)
        THEN app.id \o <<":">> \o current_title
        ELSE IF initial_title # <<>> /\
                (initial_title = app_name_norm \/ IsSub(app_name_norm, initial_title))
        THEN app.id \o <<":">> \o sMain
        ELSE app.id

_create_group_key(app, initial_title, current_title) ==
    LET app_name_norm == normalize_string(app.name)
    IN  IF /\ initial_title # <<>>
           /\ initial_title # app_name_norm
           /\ ~IsSub(initial_title, app_name_norm)
           /\ ~IsSub(app_name_norm, initial_title)
        THEN app.id \o <<":">> \o initial_title
        ELSE IF /\ current_title # <<>> /\ initial_title # <<>>
                /\ current_title # initial_title
                /\ Len(current_title) > 10
                /\ ~IsSub(current_title, initial_title)
        THEN app.id \o <<":">> \o current_title
        ELSE IF initial_title # <<>> /\
                (initial_title = app_name_norm \/ IsSub(app_name_norm, initial_title))
        THEN app.id \o <<":">> \o sMain
        ELSE app.id

\* IconManager.find_desktop_file_by_name + find_icon_for_desktop: the icon of
\* the desktop entry indexed under the lower-cased name, "" (None) when the
\* index has no such entry.  The index is the file system's; one entry here.
IconOverride(initial_title) ==
    IF initial_title # <<>> /\ Lower(initial_title) = Lower(IndexedDesktopName)
    THEN "desktop-icon" ELSE ""

\* Mutant: the group entry is created anew for every window, so a window
\* joining an existing group replaces its window list.
GroupAdd_Overwrites(groups, window, apps) ==
    LET initial_title == normalize_string(WinInitialTitle(window))
        current_title == normalize_string(window.title)
        found         == _find_matching_app(window, apps)
    IN  IF found = <<>> THEN groups
        ELSE LET app       == found[1]
                 group_key == _create_group_key(app, initial_title, current_title)
                 new       == [app |-> app, windows |-> <<window>>, icon |-> app.icon]
             IN  [k \in DOMAIN groups \cup {group_key} |->
                     IF k = group_key THEN new ELSE groups[k]]

\* One pass of the loop body of group_windows_by_app: groups is the dict built
\* so far, a function from group key to [app, windows, icon].
GroupAdd(groups, window, apps) ==
    LET initial_title == normalize_string(WinInitialTitle(window))
        current_title == normalize_string(window.title)
        found         == _find_matching_app(window, apps)
    IN  IF found = <<>> THEN groups
        ELSE LET app       == found[1]
                 group_key == _create_group_key(app, initial_title, current_title)
                 override  == IconOverride(initial_title)
                 icon      == IF override # "" THEN override ELSE app.icon
                 old       == IF group_key \in DOMAIN groups
                              THEN groups[group_key]
                              ELSE [app |-> app, windows |-> <<>>, icon |-> icon]
                 new       == [app     |-> old.app,
                               windows |-> Append(old.windows, window),
                               icon    |-> IF old.icon = "" THEN icon ELSE old.icon]
             IN  [k \in DOMAIN groups \cup {group_key} |->
                     IF k = group_key THEN new ELSE groups[k]]

RECURSIVE GroupFold(_, _, _)
GroupFold(windows, apps, groups) ==
    IF windows = <<>> THEN groups
    ELSE GroupFold(Tail(windows), apps, GroupAdd(groups, Head(windows), apps))

EmptyGroups == [k \in {} |-> 0]

group_windows_by_app(windows, apps) == GroupFold(windows, apps, EmptyGroups)

-----------------------------------------------------------------------------
(* Inputs of the WindowMatcher harness *)

App(id, name, icon, pinned) == [id |-> id, name |-> name, icon |-> icon, is_pinned |-> pinned]

aFirefox  == App(sFirefox,  sFirefoxCap, "firefox", TRUE)
aFirefoxD == App(sFirefoxD, sFirefoxCap, "firefox", FALSE)
aEsr      == App(sEsrD,     sEsrName,    "",        FALSE)
aCode     == App(sCodeD,    sCodeCap,    "code",    TRUE)
aVim      == App(sOrgVimId, sVimCap,     "vim",     FALSE)

AppPool == {aFirefox, aFirefoxD, aEsr, aCode, aVim}

Window(addr, it, t, cn, ic, aid) ==
    [address |-> addr, initial_title |-> it, title |-> t,
     class_name |-> cn, initial_class |-> ic, app_id |-> aid]

InitialTitlePool == {sEmpty, sFirefoxCap, sCodePadded, sMozilla, sDocument, sNotes, sFire}
TitlePool        == {sEmpty, sFirefoxCap, sDocument, sNotes}
ClassPool        == {sEmpty, sFirefox, sCodeCap, sFire, sOrgVim}
InitialClassPool == {sEmpty, sCode}
AppIdPool        == {sEmpty, sCodeD}

\* every window the single-window operations are applied to: all titles and
\* classes without the secondary identifiers, and the secondary identifiers
\* (initial_class, app_id) with the short titles and classes
WindowSpace ==
    {Window(1, it, t, cn, sEmpty, sEmpty) :
        it \in InitialTitlePool, t \in TitlePool, cn \in ClassPool}
    \cup
    {Window(1, it, t, cn, ic, aid) :
        it \in {sEmpty, sFirefoxCap}, t \in {sEmpty, sFirefoxCap},
        cn \in {sEmpty, sFirefox}, ic \in InitialClassPool, aid \in AppIdPool}

\* the windows group_windows_by_app is applied to, by address
Catalogue ==
    <<Window(1, sMozilla,    sMozilla,  sFirefox, sFirefox, sFirefox),
      Window(2, sDocument,   sDocument, sFirefox, sFirefox, sFirefox),
      Window(3, sCodeCap,    sNotes,    sCodeCap, sCode,    sEmpty),
      Window(4, sEmpty,      sNotes,    sOrgVim,  sOrgVim,  sEmpty),
      Window(5, sNotes,      sNotes,    sEmpty,   sEmpty,   sEmpty),
      Window(6, sFirefoxCap, sDocument, sEmpty,   sEmpty,   sFirefox)>>

\* sequences without repetition over S, of length at most n
RECURSIVE DistinctSeqs(_, _)
DistinctSeqs(S, n) ==
    IF n = 0 THEN {<<>>}
    ELSE LET shorter == DistinctSeqs(S, n - 1)
         IN  shorter \cup
             UNION {{Append(q, x) : x \in S \ {q[i] : i \in 1..Len(q)}} :
                        q \in {r \in shorter : Len(r) = n - 1}}

Registries == DistinctSeqs(AppPool, MaxApps)

CatalogueLists == DistinctSeqs({Catalogue[i] : i \in 1..Len(Catalogue)}, MaxWindows)

NoWindow == Window(0, sEmpty, sEmpty, sEmpty, sEmpty, sEmpty)

-----------------------------------------------------------------------------
(* The WindowMatcher harness: inputs drawn at Init, one action per function *)

MatcherIdle ==
    /\ m_op = "none"
    /\ m_found = <<>>
    /\ m_key = <<>>
    /\ m_match = <<>>
    /\ m_groups = EmptyGroups

MatcherInit ==
    /\ m_apps \in Registries
    /\ \/ m_win \in WindowSpace /\ m_list = <<m_win>>
       \/ /\ m_list \in CatalogueLists
          /\ m_win = IF m_list = <<>> THEN NoWindow ELSE m_list[1]
    /\ MatcherIdle

FindMatchingApp ==
    /\ m_op = "none"
    /\ m_op' = "find"
    /\ m_found' = _find_matching_app(m_win, m_apps)
    /\ UNCHANGED <<dvars, hvars, ovars, bvars, pvars, lvars, m_apps, m_win, m_list, m_key, m_match, m_groups>>

MatchesWindowToApp ==
    /\ m_op = "none"
    /\ m_op' = "matches"
    /\ m_match' = [i \in 1..Len(m_apps) |-> matches_window_to_app(m_win, m_apps[i])]
    /\ UNCHANGED <<dvars, hvars, ovars, bvars, pvars, lvars, m_apps, m_win, m_list, m_found, m_key, m_groups>>

\* _create_group_key as its callers call it: with the normalised titles
CreateGroupKey ==
    /\ m_op = "none"
    /\ m_op' = "key"
    /\ m_key' = [i \in 1..Len(m_apps) |->
                    _create_group_key(m_apps[i],
                                      normalize_string(WinInitialTitle(m_win)),
                                      normalize_string(m_win.title))]
    /\ UNCHANGED <<dvars, hvars, ovars, bvars, pvars, lvars, m_apps, m_win, m_list, m_found, m_match, m_groups>>

GroupWindowsByApp ==
    /\ m_op = "none"
    /\ m_op' = "group"
    /\ m_groups' = group_windows_by_app(m_list, m_apps)
    /\ UNCHANGED <<dvars, hvars, ovars, bvars, pvars, lvars, m_apps, m_win, m_list, m_found, m_key, m_match>>

MatcherNext ==
    \/ FindMatchingApp
    \/ MatchesWindowToApp
    \/ CreateGroupKey
    \/ GroupWindowsByApp

-----------------------------------------------------------------------------
(* Properties of the WindowMatcher *)

Matched(w) == _find_matching_app(w, m_apps) # <<>>

\* how often window w occurs in the window list of group k
Occurrences(k, w) ==
    Cardinality({p \in 1..Len(m_groups[k].windows) : m_groups[k].windows[p] = w})

\* position of window w in the input list
InputIndex(w) == CHOOSE i \in 1..Len(m_list) : m_list[i] = w

RECURSIVE SumSizes(_)
SumSizes(keys) ==
    IF keys = {} THEN 0
    ELSE LET k == CHOOSE k \in keys : TRUE
         IN  Len(m_groups[k].windows) + SumSizes(keys \ {k})

\* C6: group_windows_by_app partitions the matched windows: a window for which
\* an application is found is in exactly one group, exactly once, and the
\* windows of a group keep their input order; a window for which none is found
\* is in no group; the group sizes add up to the number of matched windows.
C6_GroupsPartitionMatched ==
    m_op = "group" =>
        LET matched == {i \in 1..Len(m_list) : Matched(m_list[i])}
        IN  /\ \A i \in 1..Len(m_list) :
                  LET w == m_list[i]
                  IN  IF i \in matched
                      THEN /\ Cardinality({k \in DOMAIN m_groups :
                                              Occurrences(k, w) > 0}) = 1
                           /\ \A k \in DOMAIN m_groups : Occurrences(k, w) <= 1
                      ELSE \A k \in DOMAIN m_groups : Occurrences(k, w) = 0
            /\ \A k \in DOMAIN m_groups :
                  LET ws == m_groups[k].windows
                  IN  /\ ws # <<>>
                      /\ \A p \in 1..Len(ws) : \E i \in 1..Len(m_list) : m_list[i] = ws[p]
                      /\ \A p, q \in 1..Len(ws) :
                            p < q => InputIndex(ws[p]) < InputIndex(ws[q])
            /\ SumSizes(DOMAIN m_groups) = Cardinality(matched)

\* C6 witness: two windows were grouped, one matched and one not
C6_Witness ==
    /\ m_op = "group"
    /\ Len(m_list) = 2
    /\ Matched(m_list[1]) /\ ~Matched(m_list[2])
    /\ Cardinality(DOMAIN m_groups) = 1

\* C7: a window whose app_id equals the id of application A and whose title
\* contains the name of another registered application B resolves to A.
C7_ExactIdOutranksSubstring ==
    m_op = "find" =>
        \A i, j \in 1..Len(m_apps) :
            (/\ i # j
             /\ m_win.app_id # <<>>
             /\ m_win.app_id = m_apps[i].id
             /\ IsSub(normalize_string(m_apps[j].name), normalize_string(m_win.title)))
            => m_found = <<m_apps[i]>>

\* The claim's reading of find_matching_application: the candidates of each
\* lookup, written from the claim (the suffix is stripped at the end only).
ClaimTitle(w) == Lower(Strip(w.initial_title))
ClaimClass(w) == Lower(Strip(WinClassOrInitial(w)))

StripDesktopSuffix(id) ==
    IF Len(id) >= Len(DotDesktop)
       /\ SubSeq(id, Len(id) - Len(DotDesktop) + 1, Len(id)) = DotDesktop
    THEN SubSeq(id, 1, Len(id) - Len(DotDesktop))
    ELSE id

TitleCandidates(w) ==
    {i \in 1..Len(m_apps) : ClaimTitle(w) # <<>> /\ Lower(m_apps[i].name) = ClaimTitle(w)}

ExactCandidates(w) ==
    {i \in 1..Len(m_apps) :
        /\ ClaimClass(w) # <<>> /\ m_apps[i].id # <<>>
        /\ \/ StripDesktopSuffix(Lower(m_apps[i].id)) = ClaimClass(w)
           \/ Lower(m_apps[i].id) = ClaimClass(w)}

SubstringCandidates(w) ==
    {i \in 1..Len(m_apps) :
        /\ ClaimClass(w) # <<>> /\ m_apps[i].id # <<>>
        /\ IsSub(ClaimClass(w), Lower(m_apps[i].id))} \ ExactCandidates(w)

ShortestOf(cands) ==
    \E i \in cands : /\ m_found = <<m_apps[i]>>
                     /\ \A j \in cands : Len(m_apps[i].id) <= Len(m_apps[j].id)

\* C8: _find_matching_app returns an application whose name equals the initial
\* title (case-insensitive) if there is one, also when another application's
\* id matches the class; otherwise the shortest-id application whose id, as
\* it is or with the ".desktop" suffix stripped, equals the class; otherwise
\* the shortest-id application whose id contains the class; otherwise none.
C8_ResolutionOrder ==
    m_op = "find" =>
        IF TitleCandidates(m_win) # {}
        THEN \E i \in TitleCandidates(m_win) : m_found = <<m_apps[i]>>
        ELSE IF ExactCandidates(m_win) # {} THEN ShortestOf(ExactCandidates(m_win))
        ELSE IF SubstringCandidates(m_win) # {} THEN ShortestOf(SubstringCandidates(m_win))
        ELSE m_found = <<>>

\* The cascade of derive_group_key as the claim states it; guarded2 says
\* whether rule 2 also asks for the initial title to be present.
ClaimedKey(app, it, ct, guarded2) ==
    LET name == normalize_string(app.name)
    IN  IF it # <<>> /\ it # name /\ ~IsSub(it, name) /\ ~IsSub(name, it)
        THEN app.id \o <<":">> \o it
        ELSE IF /\ guarded2 => it # <<>>
                /\ ct # it /\ Len(ct) > 10 /\ ~IsSub(ct, it)
        THEN app.id \o <<":">> \o ct
        ELSE IF it # <<>> /\ (it = name \/ IsSub(name, it))
        THEN app.id \o <<":">> \o sMain
        ELSE app.id

KeyFollows(guarded2) ==
    m_op = "key" =>
        LET it == normalize_string(m_win.initial_title)
            ct == normalize_string(m_win.title)
        IN  \A i \in 1..Len(m_apps) :
                m_key[i] = ClaimedKey(m_apps[i], it, ct, guarded2)

\* C9 as stated: the key follows the four-rule cascade, rule 2 asking only
\* that the current title differs from the initial title, is longer than 10
\* characters and is not contained in it.
C9_CascadeAsStated == KeyFollows(FALSE)

\* C9 amended: the same cascade, rule 2 applying only when the initial title
\* is present.
C9_CascadeAmended == KeyFollows(TRUE)

\* C9 witness: the initial title is present and repeats the application
\* name, and rule 2 derived the key from the long current title
C9_Witness ==
    /\ m_op = "key"
    /\ \E i \in 1..Len(m_apps) :
          /\ normalize_string(m_win.initial_title) = normalize_string(m_apps[i].name)
          /\ m_key[i] = m_apps[i].id \o <<":">> \o normalize_string(m_win.title)

FirefoxScenario ==
    /\ m_op = "group"
    /\ m_apps = <<aFirefox>>
    /\ m_list = <<Catalogue[1], Catalogue[2]>>

\* C10 as stated: the two Firefox windows end in two groups, firefox:main and
\* firefox:<the document title>, one window each.
C10_TwoGroupsAsStated ==
    FirefoxScenario =>
        /\ DOMAIN m_groups = {sFirefox \o <<":">> \o sMain,
                              sFirefox \o <<":">> \o normalize_string(sDocument)}
        /\ \A k \in DOMAIN m_groups : Len(m_groups[k].windows) = 1

\* C10 amended: both titles contain the application name, so the two Firefox
\* windows end in the single group firefox:main, in input order.
C10_OneMainGroup ==
    FirefoxScenario =>
        /\ DOMAIN m_groups = {sFirefox \o <<":">> \o sMain}
        /\ m_groups[sFirefox \o <<":">> \o sMain].windows = <<Catalogue[1], Catalogue[2]>>
        /\ m_groups[sFirefox \o <<":">> \o sMain].app = aFirefox

\* C10 witness: the scenario has been run
C10_Witness == FirefoxScenario /\ m_groups # EmptyGroups

\* C30: whenever _find_matching_app resolves a window to an application of
\* the registry, matches_window_to_app answers True for that window and that
\* application.
C30_FindImpliesMatches ==
    (m_op = "find" /\ m_found # <<>>) => matches_window_to_app(m_win, m_found[1])

-----------------------------------------------------------------------------
(* WindowDetector: state, environment and helpers *)

\* the two subscribers of the bar: Apps and RunningApps
Callbacks == {"apps", "running"}

Addresses == 1..MaxOpen

\* applications_service.apps as the detector sees it
DetectorApps == <<aFirefox, aCode>>

RECURSIVE SortedAddresses(_)
SortedAddresses(S) ==
    IF S = {} THEN <<>>
    ELSE LET a == CHOOSE a \in S : \A b \in S : a <= b
         IN  <<a>> \o SortedAddresses(S \ {a})

\* WindowMatcher.group_windows_by_app(windows, applications) for every window
\* list the detector can hold, windows given by address
DetectedGroups ==
    [open \in SUBSET Addresses |->
        LET ws == SortedAddresses(open)
            g  == group_windows_by_app([i \in 1..Len(ws) |-> Catalogue[ws[i]]],
                                       DetectorApps)
        IN  [k \in DOMAIN g |->
                [app     |-> g[k].app.id,
                 windows |-> [i \in 1..Len(g[k].windows) |-> g[k].windows[i].address],
                 icon    |-> g[k].icon]]]

\* The fields _detect_window_state assigns.  The dict group_windows_by_app
\* returns is determined by the window list (the registry does not change), so
\* the state object holds it by the window set it was computed from and
\* AppGroups reads it.
DetectedState(open, now) ==
    [windows          |-> SortedAddresses(open),
     last_update_time |-> now,
     app_groups       |-> open]

AppGroups(state) == DetectedGroups[state.app_groups]

\* GLib.timeout_add: a source id no pending source and no stored or local
\* handle carries
FreshId ==
    LET used == timers \cup {update_timeout_id, firing, lt_new, mt_new}
    IN  CHOOSE i \in 1..(Cardinality(used) + 1) :
            i \notin used /\ \A j \in 1..(i - 1) : j \in used

NoBurst == [open |-> FALSE, recomputes |-> 0, late |-> FALSE]

InSchedule(p) == p \in {"sched_test", "sched_remove", "sched_add", "sched_store"}

\* nothing is pending: no timer, no handler on the loop, no record in handling
Quiescent ==
    /\ timers = {} /\ firing = 0
    /\ pc = "idle"
    /\ ~InSchedule(lt_pc)

\* a raw event arrives: it opens a burst when nothing is pending.  It is late
\* when a recomputation of the burst has already run, or runs while the event
\* is still being handled
Arrived ==
    IF Quiescent THEN [NoBurst EXCEPT !.open = TRUE]
    ELSE [burst EXCEPT !.open = TRUE, !.late = @ \/ burst.recomputes > 0]

\* callback(self._current_state), made by op; outcome tells how op went on
Delivery(op, cb, outcome) ==
    [op |-> op, cb |-> cb, outcome |-> outcome, ref |-> current_state]

\* Mutant: subscribe registers the callback without delivering to it.
SubscribeDelivery_None(cb, outcome) == <<>>

\* subscribe: callback(self._current_state), made once, before anything else
SubscribeDelivery(cb, outcome) == <<Delivery("subscribe", cb, outcome)>>

\* Mutant: an exception of a callback ends the round.
RoundAfter_AbortOnRaise(cb, raises) == IF raises THEN {} ELSE round \ {cb}

\* _notify_subscribers: try: callback(...) except Exception: pass; the loop
\* goes on with the callbacks of the copy not called yet
RoundAfter(cb, raises) == round \ {cb}

\* the reference to the current state object leaves the detector
Publish == published' = published \cup {current_state}

DetectorInitWith(env, open) ==
    /\ env_ok = env
    /\ hypr_windows = open
    /\ closed_handlers = [w \in Addresses |-> IF w \in open THEN 1 ELSE 0]
    /\ timers = {}
    /\ firing = 0
    /\ clock = 1
    /\ subscribers = {}
    /\ ipc_listener = "none"
    /\ connected_windows = open
    /\ update_timeout_id = 0
    /\ current_state = 1
    /\ heap = [r \in {1} |-> DetectedState(open, 1)]
    /\ stop_event = FALSE
    /\ lt_pc = "none"
    /\ lt_new = 0
    /\ pc = "idle"
    /\ mt_new = 0
    /\ round = {}
    /\ calls = <<>>
    /\ published = {}
    /\ round_subs = {}
    /\ round_called = {}
    /\ round_raised = {}
    /\ burst = NoBurst
    /\ cleaned = FALSE
    /\ n_events = 0
    /\ unprocessed = FALSE

\* WindowDetector.__init__: the windows open at construction are connected
\* and the first state is detected
DetectorInit ==
    \E env \in BOOLEAN, open \in SUBSET Addresses : DetectorInitWith(env, open)

DetectorIdle == DetectorInitWith(TRUE, {})

-----------------------------------------------------------------------------
(* WindowDetector: the calls made on the event-loop thread *)

\* subscribe: add, deliver the current state, start the listener for the
\* first subscriber.  An exception of the callback or of the listener's
\* constructor leaves subscribe where it was raised.
subscribe(cb) ==
    /\ pc = "idle"
    /\ \E raises \in BOOLEAN :
          LET subs  == subscribers \cup {cb}
              first == Cardinality(subs) = 1 /\ ipc_listener = "none"
          IN  /\ subscribers' = subs
              /\ Publish
              /\ IF raises
                 THEN /\ calls' = SubscribeDelivery(cb, "callback raised")
                      /\ UNCHANGED <<ipc_listener, stop_event, lt_pc>>
                 ELSE IF first /\ ~env_ok
                 THEN /\ calls' = SubscribeDelivery(cb, "listener raised")
                      /\ UNCHANGED <<ipc_listener, stop_event, lt_pc>>
                 ELSE IF first
                 THEN /\ calls' = SubscribeDelivery(cb, "returned")
                      /\ ipc_listener' = "held"
                      /\ stop_event' = FALSE
                      /\ lt_pc' = "connect"
                 ELSE /\ calls' = SubscribeDelivery(cb, "returned")
                      /\ UNCHANGED <<ipc_listener, stop_event, lt_pc>>
    /\ UNCHANGED <<mvars, hvars, ovars, unprocessed, bvars, pvars, lvars, envvars, connected_windows, update_timeout_id, current_state, heap,
                   lt_new, pc, mt_new, round,
                   round_subs, round_called, round_raised, burst, cleaned, n_events>>

\* unsubscribe: discard; with no subscriber left, stop() sets the stop event
\* and joins the listener thread
unsubscribe(cb) ==
    /\ pc = "idle"
    /\ subscribers' = subscribers \ {cb}
    /\ IF subscribers' = {} /\ ipc_listener = "held"
       THEN /\ stop_event' = TRUE
            /\ pc' = "join_unsubscribe"
            /\ calls' = <<>>
       ELSE /\ calls' = <<>>
            /\ UNCHANGED <<stop_event, pc>>
    /\ UNCHANGED <<mvars, hvars, ovars, unprocessed, bvars, pvars, lvars, envvars, ipc_listener, connected_windows, update_timeout_id,
                   current_state, heap, lt_pc, lt_new, mt_new, round,
                   published, round_subs, round_called, round_raised, burst,
                   cleaned, n_events>>

\* unsubscribe, after the join: the listener is discarded
unsubscribe_joined ==
    /\ pc = "join_unsubscribe"
    /\ lt_pc = "dead"
    /\ ipc_listener' = "none"
    /\ pc' = "idle"
    /\ calls' = <<>>
    /\ UNCHANGED <<mvars, hvars, ovars, unprocessed, bvars, pvars, lvars, envvars, subscribers, connected_windows, update_timeout_id,
                   current_state, heap, stop_event, lt_pc, lt_new, mt_new, round,
                   published, round_subs, round_called, round_raised, burst,
                   cleaned, n_events>>

\* cleanup: stop the listener (it stays referenced), clear both sets
cleanup ==
    /\ pc = "idle"
    /\ cleaned' = TRUE
    /\ IF ipc_listener = "held"
       THEN /\ stop_event' = TRUE
            /\ pc' = "join_cleanup"
            /\ calls' = <<>>
            /\ UNCHANGED <<subscribers, connected_windows>>
       ELSE /\ subscribers' = {}
            /\ connected_windows' = {}
            /\ calls' = <<>>
            /\ UNCHANGED <<stop_event, pc>>
    /\ UNCHANGED <<mvars, hvars, ovars, unprocessed, bvars, pvars, lvars, envvars, ipc_listener, update_timeout_id, current_state, heap,
                   lt_pc, lt_new, mt_new, round,
                   published, round_subs, round_called, round_raised, burst, n_events>>

cleanup_joined ==
    /\ pc = "join_cleanup"
    /\ lt_pc = "dead"
    /\ subscribers' = {}
    /\ connected_windows' = {}
    /\ pc' = "idle"
    /\ calls' = <<>>
    /\ UNCHANGED <<mvars, hvars, ovars, unprocessed, bvars, pvars, lvars, envvars, ipc_listener, update_timeout_id, current_state, heap,
                   stop_event, lt_pc, lt_new, mt_new, round,
                   published, round_subs, round_called, round_raised, burst,
                   cleaned, n_events>>

\* get_current_state: the caller gets the reference the detector holds
get_current_state ==
    /\ pc = "idle"
    /\ Publish
    /\ calls' = <<>>
    /\ UNCHANGED <<mvars, hvars, ovars, unprocessed, bvars, pvars, lvars, envvars, detvars, thrvars, round_subs, round_called, round_raised,
                   burst, cleaned, n_events>>

-----------------------------------------------------------------------------
(* WindowDetector: raw events and the debounce, on the event-loop thread *)

\* _on_window_added: the window manager opened window w; it is connected to
\* "closed" once, then the update is scheduled
_on_window_added(w) ==
    /\ pc = "idle"
    /\ n_events < MaxEvents
    /\ w \notin hypr_windows /\ closed_handlers[w] = 0
    /\ hypr_windows' = hypr_windows \cup {w}
    /\ IF w \notin connected_windows
       THEN /\ closed_handlers' = [closed_handlers EXCEPT ![w] = @ + 1]
            /\ connected_windows' = connected_windows \cup {w}
       ELSE UNCHANGED <<closed_handlers, connected_windows>>
    /\ pc' = "sched_test"
    /\ burst' = Arrived
    /\ n_events' = n_events + 1
    /\ unprocessed' = TRUE
    /\ calls' = <<>>
    /\ UNCHANGED <<mvars, hvars, ovars, bvars, pvars, lvars, env_ok, timers, firing, clock, subscribers, ipc_listener,
                   update_timeout_id, current_state, heap, stop_event, lt_pc, lt_new,
                   mt_new, round, published, round_subs, round_called, round_raised,
                   cleaned>>

\* _on_window_changed: window w emitted "closed"
_on_window_changed(w) ==
    /\ pc = "idle"
    /\ n_events < MaxEvents
    /\ w \in hypr_windows /\ closed_handlers[w] > 0
    /\ hypr_windows' = hypr_windows \ {w}
    /\ pc' = "sched_test"
    /\ burst' = Arrived
    /\ n_events' = n_events + 1
    /\ unprocessed' = TRUE
    /\ calls' = <<>>
    /\ UNCHANGED <<mvars, hvars, ovars, bvars, pvars, lvars, env_ok, closed_handlers, timers, firing, clock, detvars,
                   stop_event, lt_pc, lt_new, mt_new, round,
                   published, round_subs, round_called, round_raised, cleaned>>

\* _schedule_state_update on the loop thread, one step per access to
\* _update_timeout_id and per GLib call: `if self._update_timeout_id`
schedule_test ==
    /\ pc = "sched_test"
    /\ pc' = IF update_timeout_id # 0 THEN "sched_remove" ELSE "sched_add"
    /\ calls' = <<>>
    /\ UNCHANGED <<mvars, hvars, ovars, unprocessed, bvars, pvars, lvars, envvars, detvars, stop_event, lt_pc, lt_new, mt_new, round,
                   published, round_subs, round_called, round_raised, burst,
                   cleaned, n_events>>

\* GLib.source_remove(self._update_timeout_id): the attribute is read again;
\* None is a TypeError, which ends the handler
schedule_remove ==
    /\ pc = "sched_remove"
    /\ IF update_timeout_id = 0
       THEN /\ pc' = "idle"
            /\ calls' = <<>>
            /\ UNCHANGED timers
       ELSE /\ timers' = timers \ {update_timeout_id}
            /\ pc' = "sched_add"
            /\ calls' = <<>>
    /\ UNCHANGED <<mvars, hvars, ovars, unprocessed, bvars, pvars, lvars, env_ok, hypr_windows, closed_handlers, firing, clock, detvars,
                   stop_event, lt_pc, lt_new, mt_new, round,
                   published, round_subs, round_called, round_raised, burst,
                   cleaned, n_events>>

\* GLib.timeout_add(30, ...)
schedule_add ==
    /\ pc = "sched_add"
    /\ timers' = timers \cup {FreshId}
    /\ mt_new' = FreshId
    /\ pc' = "sched_store"
    /\ calls' = <<>>
    /\ UNCHANGED <<mvars, hvars, ovars, unprocessed, bvars, pvars, lvars, env_ok, hypr_windows, closed_handlers, firing, clock, detvars,
                   stop_event, lt_pc, lt_new, round,
                   published, round_subs, round_called, round_raised, burst,
                   cleaned, n_events>>

\* self._update_timeout_id = <the id returned>
schedule_store ==
    /\ pc = "sched_store"
    /\ update_timeout_id' = mt_new
    /\ mt_new' = 0
    /\ pc' = "idle"
    /\ calls' = <<>>
    /\ UNCHANGED <<mvars, hvars, ovars, unprocessed, bvars, pvars, lvars, envvars, subscribers, ipc_listener, connected_windows,
                   current_state, heap, stop_event, lt_pc, lt_new, round,
                   published, round_subs, round_called, round_raised, burst,
                   cleaned, n_events>>

\* _detect_window_state_and_notify, dispatched by the loop for timer t:
\* _detect_window_state assigns the fields of the state object in place,
\* then _notify_subscribers iterates over a copy of the set
_detect_window_state_and_notify(t) ==
    /\ pc = "idle"
    /\ t \in timers
    /\ timers' = timers \ {t}
    /\ firing' = t
    /\ clock' = clock + 1
    /\ heap' = [heap EXCEPT ![current_state] = DetectedState(hypr_windows, clock')]
    /\ unprocessed' = FALSE
    /\ round' = subscribers
    /\ round_subs' = subscribers
    /\ round_called' = {}
    /\ round_raised' = {}
    /\ burst' = [burst EXCEPT !.recomputes = @ + 1,
                              !.late = @ \/ InSchedule(lt_pc)]
    /\ pc' = "notify"
    /\ calls' = <<>>
    /\ UNCHANGED <<mvars, hvars, ovars, bvars, pvars, lvars, env_ok, hypr_windows, closed_handlers, subscribers, ipc_listener,
                   connected_windows, update_timeout_id, current_state,
                   stop_event, lt_pc, lt_new, mt_new, published, cleaned, n_events>>

\* one pass of the loop of _notify_subscribers: the callback is called inside
\* try/except, so the loop goes on whether or not it raises
_notify_subscribers(cb) ==
    /\ pc = "notify"
    /\ cb \in round
    /\ \E raises \in BOOLEAN :
          /\ round' = RoundAfter(cb, raises)
          /\ round_raised' = IF raises THEN round_raised \cup {cb} ELSE round_raised
          /\ calls' = <<Delivery("notify", cb,
                                 IF raises THEN "callback raised" ELSE "returned")>>
    /\ Publish
    /\ round_called' = round_called \cup {cb}
    /\ UNCHANGED <<mvars, hvars, ovars, unprocessed, bvars, pvars, lvars, envvars, detvars, stop_event, lt_pc, lt_new, pc, mt_new,
                   round_subs, burst, cleaned, n_events>>

\* the end of _detect_window_state_and_notify: the handle is reset and the
\* source, returning False, is destroyed
notify_done ==
    /\ pc = "notify"
    /\ round = {}
    /\ update_timeout_id' = 0
    /\ firing' = 0
    /\ pc' = "idle"
    /\ round_subs' = {}
    /\ round_called' = {}
    /\ round_raised' = {}
    /\ burst' = burst
    /\ calls' = <<>>
    /\ UNCHANGED <<mvars, hvars, ovars, unprocessed, bvars, pvars, lvars, env_ok, hypr_windows, closed_handlers, timers, clock,
                   subscribers, ipc_listener, connected_windows, current_state, heap,
                   stop_event, lt_pc, lt_new, mt_new, round, published, cleaned, n_events>>

-----------------------------------------------------------------------------
(* HyprlandIPCListener._listener_thread, on its own thread *)

\* socket.connect: a failure returns from the thread
listener_connect ==
    /\ lt_pc = "connect"
    /\ \E connected \in BOOLEAN : lt_pc' = IF connected THEN "loop" ELSE "dead"
    /\ calls' = <<>>
    /\ UNCHANGED <<mvars, hvars, ovars, unprocessed, bvars, pvars, lvars, envvars, detvars, stop_event, lt_new, pc, mt_new, round,
                   published, round_subs, round_called, round_raised, burst,
                   cleaned, n_events>>

\* while not self._stop_event.is_set()
listener_loop ==
    /\ lt_pc = "loop"
    /\ lt_pc' = IF stop_event THEN "dead" ELSE "read"
    /\ calls' = <<>>
    /\ UNCHANGED <<mvars, hvars, ovars, unprocessed, bvars, pvars, lvars, envvars, detvars, stop_event, lt_new, pc, mt_new, round,
                   published, round_subs, round_called, round_raised, burst,
                   cleaned, n_events>>

\* file.readline() returns: a record with ">>" is split and handed to the
\* callback, _on_ipc_event, on this thread; a line without it is dropped; an
\* empty read (EOF) or a read error ends the thread
listener_readline ==
    /\ lt_pc = "read"
    /\ \/ /\ n_events < MaxEvents
          /\ lt_pc' = "sched_test"
          /\ burst' = Arrived
          /\ n_events' = n_events + 1
          /\ unprocessed' = TRUE
          /\ calls' = <<>>
       \/ /\ lt_pc' = "loop"
          /\ calls' = <<>>
          /\ UNCHANGED <<burst, n_events, unprocessed>>
       \/ /\ lt_pc' = "dead"
          /\ calls' = <<>>
          /\ UNCHANGED <<burst, n_events, unprocessed>>
    /\ UNCHANGED <<mvars, hvars, ovars, bvars, pvars, lvars, envvars, detvars, stop_event, lt_new, pc, mt_new, round,
                   published, round_subs, round_called, round_raised, cleaned>>

\* _schedule_state_update called through _on_ipc_event, on the listener thread
listener_schedule_test ==
    /\ lt_pc = "sched_test"
    /\ lt_pc' = IF update_timeout_id # 0 THEN "sched_remove" ELSE "sched_add"
    /\ calls' = <<>>
    /\ UNCHANGED <<mvars, hvars, ovars, unprocessed, bvars, pvars, lvars, envvars, detvars, stop_event, lt_new, pc, mt_new, round,
                   published, round_subs, round_called, round_raised, burst,
                   cleaned, n_events>>

\* GLib.source_remove(self._update_timeout_id): None (the loop thread reset
\* it since the test) is a TypeError, which ends the thread
listener_schedule_remove ==
    /\ lt_pc = "sched_remove"
    /\ IF update_timeout_id = 0
       THEN /\ lt_pc' = "dead"
            /\ calls' = <<>>
            /\ UNCHANGED timers
       ELSE /\ timers' = timers \ {update_timeout_id}
            /\ lt_pc' = "sched_add"
            /\ calls' = <<>>
    /\ UNCHANGED <<mvars, hvars, ovars, unprocessed, bvars, pvars, lvars, env_ok, hypr_windows, closed_handlers, firing, clock, detvars,
                   stop_event, lt_new, pc, mt_new, round,
                   published, round_subs, round_called, round_raised, burst,
                   cleaned, n_events>>

listener_schedule_add ==
    /\ lt_pc = "sched_add"
    /\ timers' = timers \cup {FreshId}
    /\ lt_new' = FreshId
    /\ lt_pc' = "sched_store"
    /\ calls' = <<>>
    /\ UNCHANGED <<mvars, hvars, ovars, unprocessed, bvars, pvars, lvars, env_ok, hypr_windows, closed_handlers, firing, clock, detvars,
                   stop_event, pc, mt_new, round,
                   published, round_subs, round_called, round_raised, burst,
                   cleaned, n_events>>

listener_schedule_store ==
    /\ lt_pc = "sched_store"
    /\ update_timeout_id' = lt_new
    /\ lt_new' = 0
    /\ lt_pc' = "loop"
    /\ calls' = <<>>
    /\ UNCHANGED <<mvars, hvars, ovars, unprocessed, bvars, pvars, lvars, envvars, subscribers, ipc_listener, connected_windows,
                   current_state, heap, stop_event, pc, mt_new, round,
                   published, round_subs, round_called, round_raised, burst,
                   cleaned, n_events>>

-----------------------------------------------------------------------------
(* WindowDetector: a subscriber that calls back into the detector *)

\* one pass of the loop of _notify_subscribers in which the callback cb,
\* before it returns, calls unsubscribe(other); a subscriber is left, so
\* unsubscribe stops no listener.  The loop goes on over its copy of the set.
notify_unsubscribing(cb, other) ==
    /\ pc = "notify"
    /\ cb \in round
    /\ other \in subscribers
    /\ subscribers \ {other} # {}
    /\ subscribers' = subscribers \ {other}
    /\ round' = RoundAfter(cb, FALSE)
    /\ calls' = <<Delivery("notify", cb, "returned")>>
    /\ Publish
    /\ round_called' = round_called \cup {cb}
    /\ UNCHANGED <<mvars, hvars, ovars, bvars, pvars, lvars, envvars, ipc_listener,
                   connected_windows, update_timeout_id, current_state, heap,
                   stop_event, lt_pc, lt_new, pc, mt_new,
                   round_subs, round_raised, burst, cleaned, n_events, unprocessed>>

-----------------------------------------------------------------------------
(* Properties of the WindowDetector *)

\* C1: a burst of raw events that have all arrived, and been handled, before a
\* recomputation of the burst runs is answered by exactly one recomputation (each recomputation
\* is followed by one notification round): never more than one, and exactly
\* one once nothing is pending any more.
C1_OneRecomputationPerBurst ==
    (burst.open /\ ~burst.late) =>
        /\ burst.recomputes <= 1
        /\ Quiescent => burst.recomputes = 1

ListenerStarted ==
    ipc_listener = "none" /\ ipc_listener' = "held" /\ lt_pc' = "connect"

ListenerStopped == ~stop_event /\ stop_event'

ListenerDiscarded == ipc_listener = "held" /\ ipc_listener' = "none"

\* C2: over subscribe and unsubscribe calls, a Listener is constructed and
\* started exactly in the steps that take the subscriber count from 0 to 1, it
\* is stopped exactly in the steps that take the count back to 0, and it is
\* discarded only with no subscriber left and its thread ended.
C2_ListenerFollowsSubscriberCount ==
    [][~cleaned' =>
          /\ (subscribers = {} /\ subscribers' # {}) <=> ListenerStarted
          /\ (subscribers # {} /\ subscribers' = {}) <=> ListenerStopped
          /\ ListenerDiscarded => (subscribers' = {} /\ lt_pc = "dead")
      ]_vars

\* C3: the step in which subscribe registers a callback invokes that callback,
\* once, with the state object the detector holds, and consumes no raw event;
\* every notification round started afterwards covers all registered
\* callbacks.
C3_SubscribeDeliversAtOnce ==
    [][/\ \A cb \in Callbacks :
             (cb \notin subscribers /\ cb \in subscribers') =>
                 /\ Len(calls') = 1
                 /\ calls'[1].op = "subscribe"
                 /\ calls'[1].cb = cb
                 /\ calls'[1].ref = current_state'
                 /\ n_events' = n_events /\ clock' = clock
       /\ (pc # "notify" /\ pc' = "notify") => round' = subscribers'
      ]_vars

\* C3 witness: before any raw event, a second callback has subscribed and has
\* been handed the current state
C3_Witness ==
    /\ n_events = 0
    /\ subscribers = Callbacks
    /\ Len(calls) = 1
    /\ calls[1].op = "subscribe" /\ calls[1].outcome = "returned"
    /\ calls[1].ref = current_state

\* C4: a state object that has been delivered or returned is not modified
\* afterwards, and every recomputation installs a new object.
C4_PublishedSnapshotsFrozen ==
    [][/\ \A r \in published : heap'[r] = heap[r]
       /\ clock' # clock => current_state' # current_state
      ]_vars

\* C5: a notification round ends only after every callback registered at its
\* start has been called, whether or not some of them raised; no step of a
\* round changes the subscriber set or the listener; and the next round again
\* starts with every registered callback.
C5_RaisingSubscriberIsolated ==
    [][/\ (pc = "notify" /\ pc' = "idle") => round_called = round_subs
       /\ pc = "notify" =>
             /\ subscribers' = subscribers
             /\ ipc_listener' = ipc_listener
             /\ round_subs' \in {round_subs, {}}
       /\ (pc # "notify" /\ pc' = "notify") =>
             /\ round_subs' = subscribers
             /\ round' = round_subs' /\ round_called' = {}
      ]_vars

\* C5 witness: a round over two subscribers is complete, both were called and
\* at least one of them raised
C5_Witness ==
    /\ pc = "notify" /\ round = {}
    /\ round_subs = Callbacks
    /\ round_called = Callbacks
    /\ round_raised # {}

\* the steps the event loop takes by itself: a join that can return
LoopJoins ==
    \/ unsubscribe_joined
    \/ cleanup_joined

\* the handler in progress goes on
LoopHandlers ==
    \/ schedule_test
    \/ schedule_remove
    \/ schedule_add
    \/ schedule_store
    \/ \E cb \in Callbacks : _notify_subscribers(cb)
    \/ notify_done

\* a timeout that is due is dispatched once the loop is idle
LoopTimers == \E t \in timers : _detect_window_state_and_notify(t)

LoopThread == LoopJoins \/ LoopHandlers \/ LoopTimers

\* the steps the listener thread takes by itself; readline() returns only
\* when the window manager sends a line or closes the socket
ListenerThread ==
    \/ listener_connect
    \/ listener_loop
    \/ listener_schedule_test
    \/ listener_schedule_remove
    \/ listener_schedule_add
    \/ listener_schedule_store

\* C17: the unsubscribe of the last subscriber, which stops and joins the
\* listener, returns in the end, also when the thread sits in readline() and
\* the window manager neither sends a line nor closes the socket.
C17_StopReturns == (pc = "join_unsubscribe") ~> (pc = "idle")

\* C19: a listener whose thread has ended is not replaced and connects no
\* more while the subscriber set stays non-empty; once every subscriber has
\* unsubscribed, the next subscribe constructs and starts a new listener.
C19_NoReconnectUntilResubscribed ==
    [][/\ (/\ ipc_listener = "held" /\ lt_pc = "dead"
           /\ subscribers # {} /\ subscribers' # {})
              => (ipc_listener' = "held" /\ lt_pc' = "dead")
       /\ (/\ subscribers = {} /\ ipc_listener = "none" /\ lt_pc = "dead"
           /\ subscribers' # {})
              => ListenerStarted]_vars

\* an exception of the callback has left the operation that made the call
LeftByException(call) == call.op = "subscribe" /\ call.outcome = "callback raised"

\* C21: no delivery lets an exception of the callback out of the detector,
\* and the subscribe of a first subscriber constructs and starts the listener
\* whether or not the callback raised while it was handed the current state.
C21_CallbackExceptionsContained ==
    [][\A i \in DOMAIN calls' :
          /\ ~LeftByException(calls'[i])
          /\ (/\ calls'[i].op = "subscribe"
              /\ subscribers = {} /\ ipc_listener = "none" /\ env_ok)
                => ListenerStarted]_vars

\* C22: the listener thread never runs the code that tests, cancels and
\* stores the debounce timer; and, with no handler in progress, no timer is
\* pending that the detector holds no handle of.
C22_ListenerThreadConfined ==
    /\ ~InSchedule(lt_pc)
    /\ (pc = "idle" /\ firing = 0) => timers \subseteq {update_timeout_id}

\* GLib.source_remove(self._update_timeout_id) is about to be called by the
\* thread at position p
AboutToCancel(p) == p = "sched_remove" /\ update_timeout_id # 0

\* the detector holds a listener that was started and not stopped
HoldsStartedListener == ipc_listener = "held" /\ lt_pc # "none" /\ ~stop_event

\* C24: between the calls of subscribe, unsubscribe and cleanup the detector
\* holds a started listener when its subscriber set is not empty, and holds
\* none when the set is empty.
C24_ListenerIffSubscribers ==
    pc = "idle" =>
        IF subscribers # {} THEN HoldsStartedListener ELSE ipc_listener = "none"

\* C26: a notification round invokes only callbacks that are subscribed when
\* they are invoked: a callback that was unsubscribed, and not subscribed
\* again, is not called, also when it was unsubscribed by another callback
\* earlier in the same round.
C26_UnsubscribeIsFinal ==
    [][\A i \in DOMAIN calls' :
          calls'[i].op = "notify" => calls'[i].cb \in subscribers]_vars

\* no handler is in progress on either thread
AtRest == pc = "idle" /\ firing = 0 /\ ~InSchedule(lt_pc)

\* C28: a raw event that no recomputation has followed yet is followed by
\* one in the end; and whenever such an event exists and no handler is in
\* progress, a debounce timer is pending.
C28_NoLostUpdate ==
    /\ [](AtRest /\ unprocessed => timers # {})
    /\ unprocessed ~> ~unprocessed

-----------------------------------------------------------------------------
(* BadgeCounter (badge_counter.py): the badge derivations and their cache *)

\* applications_service.apps where the badge counter's snapshots are grouped
BadgeRegistry == <<aFirefox, aCode, aVim>>

\* hyprland.windows at a recomputation: no window; one of an unpinned
\* application; two groups of Firefox; a pinned and an unpinned application;
\* a group of two and a group of one of Firefox; three applications
BadgeWindowLists ==
    {<<>>,
     <<Catalogue[4]>>,
     <<Catalogue[1], Catalogue[6]>>,
     <<Catalogue[3], Catalogue[4]>>,
     <<Catalogue[1], Catalogue[6], Catalogue[2]>>,
     <<Catalogue[6], Catalogue[4], Catalogue[3]>>}

\* the application lists compute_badges_for_apps is called with (the pinned
\* applications, in their order)
BadgeAppLists ==
    {<<>>, <<aFirefox>>, <<aCode, aFirefox>>, <<aFirefox, aVim>>, <<aVim, aCode>>}

\* dict order: the keys of the dict group_windows_by_app built from windows,
\* in the order they were inserted (each by the first window of its group)
RECURSIVE KeysInOrder(_, _, _)
KeysInOrder(groups, windows, seen) ==
    IF windows = <<>> THEN <<>>
    ELSE LET ks == {k \in DOMAIN groups \ seen : groups[k].windows[1] = Head(windows)}
         IN  IF ks = {} THEN KeysInOrder(groups, Tail(windows), seen)
             ELSE LET k == CHOOSE x \in ks : TRUE
                  IN  <<k>> \o KeysInOrder(groups, Tail(windows), seen \cup {k})

\* the items of the dict g in the order keys, the windows given by address
ItemsOf(g, keys) ==
    [i \in 1..Len(keys) |->
        [key     |-> keys[i],
         app     |-> g[keys[i]].app,
         windows |-> [j \in 1..Len(g[keys[i]].windows) |->
                          g[keys[i]].windows[j].address]]]

\* the dict g in insertion order
OrderedItems(g, windows) == ItemsOf(g, KeysInOrder(g, windows, {}))

\* window_state.app_groups.items(): (group_key, group_data) in dict order
GroupItems(windows, apps) ==
    OrderedItems(group_windows_by_app(windows, apps), windows)

\* the WindowState the detector holds after _detect_window_state at time now
Snapshot(windows, now) ==
    [last_update_time |-> now, app_groups |-> GroupItems(windows, BadgeRegistry)]

\* Mutant: a badge is visible whatever its count.
BadgeInfo_AlwaysVisible(app, count, windows) ==
    [app |-> app.id, count |-> count, windows |-> windows, visible |-> TRUE]

\* BadgeInfo.__init__
BadgeInfo(app, count, windows) ==
    [app |-> app.id, count |-> count, windows |-> windows, visible |-> count > 0]

\* the loop of _compute_badge_for_app over app_groups.items(), from position i
RECURSIVE BadgeLoop(_, _, _, _)
BadgeLoop(app, items, i, acc) ==
    IF i > Len(items) THEN acc
    ELSE BadgeLoop(app, items, i + 1,
                   IF items[i].app.id = app.id
                   THEN [total_count |-> acc.total_count + Len(items[i].windows),
                         all_windows |-> acc.all_windows \o items[i].windows]
                   ELSE acc)

_compute_badge_for_app(app, window_state) ==
    IF window_state.app_groups = <<>>
    THEN BadgeInfo(app, 0, <<>>)
    ELSE LET r == BadgeLoop(app, window_state.app_groups, 1,
                            [total_count |-> 0, all_windows |-> <<>>])
         IN  BadgeInfo(app, r.total_count, r.all_windows)

EmptyBadges == [k \in {} |-> 0]

\* badges[app.id] = badge_info, for app in apps
RECURSIVE BadgesFor(_, _, _)
BadgesFor(apps, window_state, badges) ==
    IF apps = <<>> THEN badges
    ELSE LET app == Head(apps)
             b   == _compute_badge_for_app(app, window_state)
         IN  BadgesFor(Tail(apps), window_state,
                       [k \in DOMAIN badges \cup {app.id} |->
                           IF k = app.id THEN b ELSE badges[k]])

\* Mutant: the cached result is never used.
CacheHit_Never(window_state) == FALSE

\* if window_state.last_update_time == self._last_state_time
CacheHit(window_state) == window_state.last_update_time = b_last_time

\* Mutant: the badge of a running application keeps the group's own list.
FirstWindows_Shared(j) == j

\* group_data["windows"].copy(): the badge gets a list of its own (0), not
\* the list object of group j
FirstWindows(j) == 0

\* the loop of get_running_apps_badges over app_groups.items(), from position
\* i.  A badge carries `shares`: the group whose list object its windows list
\* is (0: a list of its own); extend() on a shared list extends the group's.
RECURSIVE RunningLoop(_, _, _, _)
RunningLoop(items, exclude_pinned, i, badges) ==
    IF i > Len(items) THEN [badges |-> badges, items |-> items]
    ELSE LET app == items[i].app
         IN  IF exclude_pinned /\ app.is_pinned
             THEN RunningLoop(items, exclude_pinned, i + 1, badges)
             ELSE IF app.id \in DOMAIN badges
             THEN LET old  == badges[app.id]
                      ext  == old.windows \o items[i].windows
                      new  == [old EXCEPT !.count = @ + Len(items[i].windows),
                                          !.windows = ext]
                      its  == IF old.shares = 0 THEN items
                              ELSE [items EXCEPT ![old.shares].windows = ext]
                  IN  RunningLoop(its, exclude_pinned, i + 1,
                                  [badges EXCEPT ![app.id] = new])
             ELSE LET b == [app     |-> app.id,
                            count   |-> Len(items[i].windows),
                            windows |-> items[i].windows,
                            visible |-> Len(items[i].windows) > 0,
                            shares  |-> FirstWindows(i)]
                  IN  RunningLoop(items, exclude_pinned, i + 1,
                                  [k \in DOMAIN badges \cup {app.id} |->
                                      IF k = app.id THEN b ELSE badges[k]])

\* for badge in badges.values(): badge.visible = badge.count > 0
RunningBadges(badges) ==
    [k \in DOMAIN badges |->
        BadgeInfo([id |-> badges[k].app], badges[k].count, badges[k].windows)]

NoCall == [seq |-> 0, op |-> "none"]

BadgeInitWith(windows) ==
    /\ b_state = Snapshot(windows, 1)
    /\ b_cached = EmptyBadges
    /\ b_last_time = 0
    /\ b_call = NoCall

\* BadgeCounter.__init__, and the detector's first state
BadgeInit == \E windows \in BadgeWindowLists : BadgeInitWith(windows)

BadgeIdle == BadgeInitWith(<<>>)

\* the detector recomputes: the state object holds a new window list, new
\* groups and a new timestamp
detector_recomputes(windows) ==
    /\ b_state.last_update_time < MaxStamp
    /\ b_state' = Snapshot(windows, b_state.last_update_time + 1)
    /\ UNCHANGED <<mvars, hvars, ovars, dvars, pvars, lvars, b_cached, b_last_time, b_call>>

compute_badges_for_apps(apps) ==
    /\ IF CacheHit(b_state)
       THEN /\ b_call' = [seq |-> 1 - b_call.seq, op |-> "compute", apps |-> apps,
                          time |-> b_state.last_update_time, recomputed |-> FALSE,
                          derived |-> 0, result |-> b_cached]
            /\ UNCHANGED <<b_cached, b_last_time>>
       ELSE LET badges == BadgesFor(apps, b_state, EmptyBadges)
            IN  /\ b_last_time' = b_state.last_update_time
                /\ b_cached' = badges
                /\ b_call' = [seq |-> 1 - b_call.seq, op |-> "compute", apps |-> apps,
                              time |-> b_state.last_update_time, recomputed |-> TRUE,
                              derived |-> Len(apps), result |-> badges]
    /\ UNCHANGED <<mvars, hvars, ovars, dvars, pvars, lvars, b_state>>

get_running_apps_badges(exclude_pinned) ==
    /\ IF b_state.app_groups = <<>>
       THEN /\ b_call' = [seq |-> 1 - b_call.seq, op |-> "running",
                          exclude_pinned |-> exclude_pinned,
                          before |-> b_state, result |-> EmptyBadges]
            /\ b_state' = b_state
       ELSE LET r == RunningLoop(b_state.app_groups, exclude_pinned, 1, EmptyBadges)
            IN  /\ b_call' = [seq |-> 1 - b_call.seq, op |-> "running",
                              exclude_pinned |-> exclude_pinned,
                              before |-> b_state, result |-> RunningBadges(r.badges)]
                /\ b_state' = [b_state EXCEPT !.app_groups = r.items]
    /\ UNCHANGED <<mvars, hvars, ovars, dvars, pvars, lvars, b_cached, b_last_time>>

clear_cache ==
    /\ b_cached' = EmptyBadges
    /\ b_last_time' = 0
    /\ b_call' = [seq |-> 1 - b_call.seq, op |-> "clear"]
    /\ UNCHANGED <<mvars, hvars, ovars, dvars, pvars, lvars, b_state>>

BadgeNext ==
    \/ \E windows \in BadgeWindowLists : detector_recomputes(windows)
    \/ \E apps \in BadgeAppLists : compute_badges_for_apps(apps)
    \/ \E exclude_pinned \in BOOLEAN : get_running_apps_badges(exclude_pinned)
    \/ clear_cache

-----------------------------------------------------------------------------
(* Properties of the BadgeCounter *)

\* the application ids of a list
IdsOf(apps) == {apps[i].id : i \in 1..Len(apps)}

\* the groups of a snapshot owned by application id
GroupsOf(state, id) ==
    {i \in 1..Len(state.app_groups) : state.app_groups[i].app.id = id}

RECURSIVE SumLen(_, _)
SumLen(state, S) ==
    IF S = {} THEN 0
    ELSE LET i == CHOOSE x \in S : TRUE
         IN  Len(state.app_groups[i].windows) + SumLen(state, S \ {i})

\* the windows of the groups of a snapshot owned by application id
WindowsOf(state, id) ==
    UNION {{state.app_groups[i].windows[j] : j \in 1..Len(state.app_groups[i].windows)} :
               i \in GroupsOf(state, id)}

\* badge b counts, and lists once each, the windows of the groups of id
BadgeSums(b, state, id) ==
    /\ b.app = id
    /\ b.count = SumLen(state, GroupsOf(state, id))
    /\ Len(b.windows) = b.count
    /\ {b.windows[j] : j \in 1..Len(b.windows)} = WindowsOf(state, id)
    /\ Cardinality(WindowsOf(state, id)) = b.count
    /\ b.visible = (b.count > 0)

\* C11: two compute_badges_for_apps calls in a row with the same snapshot
\* (same timestamp) and the same application list return equal maps and the
\* second runs no per-application derivation; a call whose snapshot timestamp
\* differs from the last one used runs the derivation for every application.
C11_CacheByTimestamp ==
    [][(b_call'.seq # b_call.seq /\ b_call'.op = "compute") =>
          /\ (/\ b_call.op = "compute"
              /\ b_call.time = b_call'.time
              /\ b_call.apps = b_call'.apps)
                 => /\ b_call'.result = b_call.result
                    /\ ~b_call'.recomputed
                    /\ b_call'.derived = 0
          /\ (b_call'.time # b_last_time)
                 => /\ b_call'.recomputed
                    /\ b_call'.derived = Len(b_call'.apps)
                    /\ b_last_time' = b_call'.time]_vars

\* a call answered from the cache, for the applications it was filled for
C11_Witness ==
    /\ b_call.op = "compute"
    /\ ~b_call.recomputed
    /\ b_call.apps # <<>>
    /\ DOMAIN b_call.result = IdsOf(b_call.apps)
    /\ \E id \in DOMAIN b_call.result : b_call.result[id].count > 0

\* C12: a compute_badges_for_apps call that recomputes returns one BadgeInfo
\* per application of the list, keyed by its id, whose count is the number of
\* windows over all groups of that application, whose windows are those
\* windows and whose visible flag is count > 0 (count 0, not visible, for an
\* application without a group).
C12_BadgePerApplication ==
    (b_call.op = "compute" /\ b_call.recomputed
        /\ b_call.time = b_state.last_update_time) =>
        /\ DOMAIN b_call.result = IdsOf(b_call.apps)
        /\ \A id \in IdsOf(b_call.apps) :
              /\ BadgeSums(b_call.result[id], b_state, id)
              /\ GroupsOf(b_state, id) = {} =>
                    (b_call.result[id].count = 0 /\ ~b_call.result[id].visible)

\* an application with two groups and one without any, in one recomputation
C12_Witness ==
    /\ b_call.op = "compute" /\ b_call.recomputed
    /\ b_call.time = b_state.last_update_time
    /\ \E id \in IdsOf(b_call.apps) :
          Cardinality(GroupsOf(b_state, id)) = 2 /\ b_call.result[id].count = 2
    /\ \E id \in IdsOf(b_call.apps) :
          GroupsOf(b_state, id) = {} /\ ~b_call.result[id].visible

\* the application ids that own a group of a snapshot
Owners(state) == {state.app_groups[i].app.id : i \in 1..Len(state.app_groups)}

PinnedOwners(state) ==
    {state.app_groups[i].app.id :
        i \in {j \in 1..Len(state.app_groups) : state.app_groups[j].app.is_pinned}}

\* C13: get_running_apps_badges returns one entry per application id that
\* owns a group (per unpinned one with exclude_pinned), with count the sum of
\* the sizes of its groups and visible = count > 0; a snapshot of one pinned
\* and one unpinned application gives exactly the unpinned entry; the
\* snapshot's group window lists are left as they were.
C13_RunningAggregates ==
    b_call.op = "running" =>
        LET before == b_call.before
            shown  == IF b_call.exclude_pinned
                      THEN Owners(before) \ PinnedOwners(before)
                      ELSE Owners(before)
        IN  /\ DOMAIN b_call.result = shown
            /\ \A id \in shown : BadgeSums(b_call.result[id], before, id)
            /\ b_call.exclude_pinned => DOMAIN b_call.result \cap PinnedOwners(before) = {}
            /\ (/\ b_call.exclude_pinned
                /\ Cardinality(Owners(before)) = 2
                /\ Cardinality(PinnedOwners(before)) = 1)
                   => Cardinality(DOMAIN b_call.result) = 1
            /\ b_state.last_update_time = before.last_update_time
                   => b_state = before

\* one pinned and one unpinned application, pinned ones excluded
C13_Witness ==
    /\ b_call.op = "running" /\ b_call.exclude_pinned
    /\ Cardinality(Owners(b_call.before)) = 2
    /\ Cardinality(PinnedOwners(b_call.before)) = 1
    /\ Cardinality(DOMAIN b_call.result) = 1

\* C25: what compute_badges_for_apps returns is what the derivation without
\* the cache gives for the snapshot and the application list of the call.
C25_CacheSound ==
    (b_call.op = "compute" /\ b_call.time = b_state.last_update_time) =>
        b_call.result = BadgesFor(b_call.apps, b_state, EmptyBadges)

-----------------------------------------------------------------------------
(* WindowPreviewManager (window_preview.py): delayed show and hide of the
   hover preview popovers, on the event-loop thread *)

\* the application ids of the taskbar entries
PreviewApps == {"firefox", "code"}

\* a dict without the key, or a handle that is None
Absent == <<>>

NoHandles == [a \in PreviewApps |-> Absent]

\* the least number from 1 on that is not in used
LeastUnused(used) ==
    CHOOSE i \in 1..(Cardinality(used) + 1) :
        i \notin used /\ \A j \in 1..(i - 1) : j \in used

\* GLib.timeout_add: a source id no pending source carries and the handle
\* stored for the application does not hold.  Ids are told apart by the kind
\* and the application of their timer and a number.
FreshTimer(kind, app_id, handle) ==
    LET used == {t.id[3] : t \in {u \in p_timers : u.kind = kind /\ u.app = app_id}}
                \cup (IF handle = Absent THEN {} ELSE {handle[3]})
    IN  <<kind, app_id, LeastUnused(used)>>

\* a new WindowPreviewPopover object, told apart by its application and a
\* number
FreshPopover(app_id) ==
    LET used == {p.id[2] : p \in {q \in p_live : q.app = app_id}}
                \cup (IF p_active[app_id] = Absent THEN {} ELSE {p_active[app_id][2]})
    IN  <<app_id, LeastUnused(used)>>

\* GLib.source_remove(handle) on the pending sources
SourceRemove(pending, handle) == {t \in pending : t.id # handle}

\* WindowPreviewPopover.close(): the popover is live no longer
Close(live, popover) == {p \in live : p.id # popover}


\* Mutant: scheduling a hide does not look for a pending show.
ShowIsPending_Ignored(app_id) == FALSE

\* if app_id in self._hover_timeouts
ShowIsPending(app_id) == p_hover[app_id] # Absent

\* the body of show_preview_for_app, with `pending` the sources pending when
\* it starts.  The constructor of the popover or show_at_position may raise;
\* the handler drops the entry of the popover and nothing else.
ShowPreviewForApp(app_id, windows, pending) ==
    IF ~windows
    THEN /\ p_timers' = pending
         /\ UNCHANGED <<p_hide, p_active, p_live>>
    ELSE /\ p_timers' = SourceRemove(pending, p_hide[app_id])
         /\ p_hide' = [p_hide EXCEPT ![app_id] = Absent]
         /\ \E outcome \in {"shown", "constructor raised", "show raised"} :
               LET closed == Close(p_live, p_active[app_id])
                   new    == [id |-> FreshPopover(app_id), app |-> app_id]
               IN  /\ outcome # "constructor raised" => Cardinality(closed) < MaxLive
                   /\ p_active' = [p_active EXCEPT ![app_id] =
                                      IF outcome = "shown" THEN new.id ELSE Absent]
                   /\ p_live' = IF outcome = "constructor raised"
                                THEN closed ELSE closed \cup {new}

\* the body of hide_preview_for_app
HidePreviewForApp(app_id) ==
    /\ p_live' = Close(p_live, p_active[app_id])
    /\ p_active' = [p_active EXCEPT ![app_id] = Absent]

PreviewInit ==
    /\ p_active = NoHandles
    /\ p_hover = NoHandles
    /\ p_hide = NoHandles
    /\ p_timers = {}
    /\ p_live = {}
    /\ p_call = "other"

show_preview_for_app(app_id, windows) ==
    /\ ShowPreviewForApp(app_id, windows, p_timers)
    /\ p_call' = "other"
    /\ UNCHANGED <<mvars, hvars, ovars, dvars, bvars, lvars, p_hover>>

\* schedule_show_preview, as the taskbar entries call it: with a window list
\* that is not empty (apps.py 224, running_apps.py 142)
schedule_show_preview(app_id, windows) ==
    LET timeout_id == FreshTimer("show", app_id, p_hover[app_id])
    IN  /\ p_timers' = SourceRemove(p_timers, p_hover[app_id])
                       \cup {[id |-> timeout_id, kind |-> "show", app |-> app_id,
                              windows |-> windows]}
        /\ p_hover' = [p_hover EXCEPT ![app_id] = timeout_id]
        /\ p_call' = "schedule_show"
        /\ UNCHANGED <<mvars, hvars, ovars, dvars, bvars, lvars, p_hide, p_active, p_live>>

schedule_hide_preview(app_id) ==
    /\ IF ShowIsPending(app_id)
       THEN UNCHANGED <<p_timers, p_hide>>
       ELSE LET timeout_id == FreshTimer("hide", app_id, p_hide[app_id])
            IN  /\ p_timers' = SourceRemove(p_timers, p_hide[app_id])
                               \cup {[id |-> timeout_id, kind |-> "hide", app |-> app_id,
                                      windows |-> FALSE]}
                /\ p_hide' = [p_hide EXCEPT ![app_id] = timeout_id]
    /\ p_call' = "schedule_hide"
    /\ UNCHANGED <<mvars, hvars, ovars, dvars, bvars, lvars, p_hover, p_active, p_live>>

cancel_scheduled_show(app_id) ==
    /\ p_timers' = SourceRemove(p_timers, p_hover[app_id])
    /\ p_hover' = [p_hover EXCEPT ![app_id] = Absent]
    /\ p_call' = "other"
    /\ UNCHANGED <<mvars, hvars, ovars, dvars, bvars, lvars, p_hide, p_active, p_live>>

cancel_scheduled_hide(app_id) ==
    /\ p_timers' = SourceRemove(p_timers, p_hide[app_id])
    /\ p_hide' = [p_hide EXCEPT ![app_id] = Absent]
    /\ p_call' = "other"
    /\ UNCHANGED <<mvars, hvars, ovars, dvars, bvars, lvars, p_hover, p_active, p_live>>

hide_preview_for_app(app_id) ==
    /\ HidePreviewForApp(app_id)
    /\ p_call' = "other"
    /\ UNCHANGED <<mvars, hvars, ovars, dvars, bvars, lvars, p_hover, p_hide, p_timers>>

\* the show timer t fires
_show_preview_timeout(t) ==
    /\ t.kind = "show"
    /\ p_hover' = [p_hover EXCEPT ![t.app] = Absent]
    /\ ShowPreviewForApp(t.app, t.windows, p_timers \ {t})
    /\ p_call' = "other"
    /\ UNCHANGED <<mvars, hvars, ovars, dvars, bvars, lvars>>

\* the hide timer t fires
_hide_preview_timeout(t) ==
    /\ t.kind = "hide"
    /\ p_hide' = [p_hide EXCEPT ![t.app] = Absent]
    /\ p_timers' = p_timers \ {t}
    /\ HidePreviewForApp(t.app)
    /\ p_call' = "other"
    /\ UNCHANGED <<mvars, hvars, ovars, dvars, bvars, lvars, p_hover>>

\* WindowPreviewPopover._on_window_clicked: a click on a preview closes the
\* popover; the manager keeps its entry
_on_window_clicked(app_id) ==
    /\ \E p \in p_live : p.id = p_active[app_id]
    /\ p_live' = Close(p_live, p_active[app_id])
    /\ p_call' = "other"
    /\ UNCHANGED <<mvars, hvars, ovars, dvars, bvars, lvars, p_hover, p_hide, p_timers, p_active>>

\* WindowPreviewManager.cleanup
preview_cleanup ==
    /\ p_timers' = {t \in p_timers :
                       /\ t.id \notin {p_hover[a] : a \in PreviewApps}
                       /\ t.id \notin {p_hide[a] : a \in PreviewApps}}
    /\ p_hover' = NoHandles
    /\ p_hide' = NoHandles
    /\ p_live' = {p \in p_live : p.id \notin {p_active[a] : a \in PreviewApps}}
    /\ p_active' = NoHandles
    /\ p_call' = "other"
    /\ UNCHANGED <<mvars, hvars, ovars, dvars, bvars, lvars>>

PreviewNext ==
    \/ \E a \in PreviewApps, windows \in BOOLEAN : show_preview_for_app(a, windows)
    \/ \E a \in PreviewApps : schedule_show_preview(a, TRUE)
    \/ \E a \in PreviewApps : schedule_hide_preview(a)
    \/ \E a \in PreviewApps : cancel_scheduled_show(a)
    \/ \E a \in PreviewApps : cancel_scheduled_hide(a)
    \/ \E a \in PreviewApps : hide_preview_for_app(a)
    \/ \E t \in p_timers : _show_preview_timeout(t)
    \/ \E t \in p_timers : _hide_preview_timeout(t)
    \/ \E a \in PreviewApps : _on_window_clicked(a)
    \/ preview_cleanup

-----------------------------------------------------------------------------
(* Properties of the WindowPreviewManager *)

ShowTimers(pending, a) == {t \in pending : t.kind = "show" /\ t.app = a}

HideTimers(pending, a) == {t \in pending : t.kind = "hide" /\ t.app = a}

LiveOf(a) == {p \in p_live : p.app = a}

\* C14: schedule_hide_preview(appId) while a show timer is pending for appId
\* arms no hide timer and leaves the pending timers, the stored handles and
\* the popovers as they were; otherwise it cancels the hide timer of appId, if
\* any, and arms exactly one new one.
C14_HideSuppressedByPendingShow ==
    [][\A a \in PreviewApps :
          schedule_hide_preview(a) =>
              IF ShowTimers(p_timers, a) # {}
              THEN UNCHANGED <<p_timers, p_hover, p_hide, p_active, p_live>>
              ELSE /\ Cardinality(HideTimers(p_timers', a)) = 1
                   /\ HideTimers(p_timers', a) \cap p_timers = {}
                   /\ \A t \in HideTimers(p_timers', a) :
                         /\ p_hide'[a] = t.id
                         /\ t.id \notin {u.id : u \in p_timers}
                   /\ p_timers' \ HideTimers(p_timers', a)
                         = p_timers \ HideTimers(p_timers, a)
                   /\ UNCHANGED <<p_hover, p_active, p_live>>]_vars

\* a hide was asked for while the show was pending, and nothing was armed
C14_Witness ==
    /\ p_call = "schedule_hide"
    /\ \E a \in PreviewApps :
          /\ ShowTimers(p_timers, a) # {}
          /\ HideTimers(p_timers, a) = {}
          /\ LiveOf(a) # {}
          /\ \A b \in PreviewApps \ {a} : ShowTimers(p_timers, b) = {} /\ p_hide[b] = Absent

\* C15: once schedule_show_preview(appId, ...) has returned no hide timer is
\* pending for appId, and no application id ever has a show timer and a hide
\* timer pending together.
C15_ShowCancelsHide ==
    \A a \in PreviewApps :
        ShowTimers(p_timers, a) = {} \/ HideTimers(p_timers, a) = {}

\* C16: for each application id at most one popover is live (created and not
\* closed), whatever calls were made and timers fired.
C16_OneLivePopoverPerApp ==
    \A a \in PreviewApps : Cardinality(LiveOf(a)) <= 1

-----------------------------------------------------------------------------
(* HyprlandIPCListener (window_detector.py) by itself: its owner calls
   start() and stop(), the socket delivers lines, the callback records *)

Delimiter == <<">", ">">>

\* the lines readline() returns, with their newline (the last line before
\* EOF may lack it)
LinePool ==
    {<<"a", ">", ">", "b", "\n">>,
     <<"a", ">", ">", "b", ">", ">", "c", "\n">>,
     <<"a", "b", "\n">>,
     <<"\n">>,
     <<" ", "a", ">", ">", "b", " ", "\n">>,
     <<">", ">">>}

\* s.split(">>", 1) for s holding ">>": the text before and after the
\* first occurrence
SplitFirst(s) ==
    LET i == CHOOSE k \in 1..(Len(s) - 1) :
                 /\ SubSeq(s, k, k + 1) = Delimiter
                 /\ \A j \in 1..(k - 1) : SubSeq(s, j, j + 1) # Delimiter
    IN  <<SubSeq(s, 1, i - 1), SubSeq(s, i + 2, Len(s))>>

\* Mutant: the record is split as it was read.
Record_Unstripped(line) == line

\* line = line.strip()
Record(line) == Strip(line)

\* Mutant: start() does not look at the thread it holds.
ThreadIsAlive_Ignored(threads, thread) == FALSE

\* self._thread and self._thread.is_alive()
ThreadIsAlive(threads, thread) == thread # 0 /\ threads[thread].pc # "dead"

NoLine == <<>>

ListenerInit ==
    /\ l_thread = 0
    /\ l_threads = <<>>
    /\ l_stop = FALSE
    /\ l_owner = "idle"
    /\ l_lines = <<>>
    /\ l_log = <<>>
    /\ l_stopped = FALSE

\* start(), called by the owner: not after a stop(), the detector starts a
\* listener once and never restarts one it stopped
start ==
    /\ l_owner = "idle"
    /\ ~l_stop
    /\ Len(l_threads) < MaxThreads
    /\ IF ThreadIsAlive(l_threads, l_thread)
       THEN UNCHANGED <<l_thread, l_threads, l_stop>>
       ELSE /\ l_stop' = FALSE
            /\ l_threads' = Append(l_threads, [pc |-> "connect", line |-> NoLine])
            /\ l_thread' = Len(l_threads) + 1
    /\ UNCHANGED <<mvars, hvars, ovars, dvars, bvars, pvars, l_owner, l_lines, l_log, l_stopped>>

\* stop(): set the event; with a thread, join it
stop ==
    /\ l_owner = "idle"
    /\ l_stop' = TRUE
    /\ IF l_thread # 0
       THEN l_owner' = "join" /\ UNCHANGED l_stopped
       ELSE l_owner' = "idle" /\ l_stopped' = TRUE
    /\ UNCHANGED <<mvars, hvars, ovars, dvars, bvars, pvars, l_thread, l_threads, l_lines, l_log>>

\* self._thread.join() returns: the thread has ended
stop_joined ==
    /\ l_owner = "join"
    /\ l_threads[l_thread].pc = "dead"
    /\ l_owner' = "idle"
    /\ l_stopped' = TRUE
    /\ UNCHANGED <<mvars, hvars, ovars, dvars, bvars, pvars, l_thread, l_threads, l_stop, l_lines, l_log>>

ThreadStep(i, at, line) == [l_threads EXCEPT ![i] = [pc |-> at, line |-> line]]

\* sock.connect: a failure returns from the thread
thread_connect(i) ==
    /\ l_threads[i].pc = "connect"
    /\ \E connected \in BOOLEAN :
          l_threads' = ThreadStep(i, IF connected THEN "loop" ELSE "dead", NoLine)
    /\ UNCHANGED <<mvars, hvars, ovars, dvars, bvars, pvars, l_thread, l_stop, l_owner, l_lines, l_log,
                   l_stopped>>

\* while not self._stop_event.is_set()
thread_loop(i) ==
    /\ l_threads[i].pc = "loop"
    /\ l_threads' = ThreadStep(i, IF l_stop THEN "dead" ELSE "read", NoLine)
    /\ UNCHANGED <<mvars, hvars, ovars, dvars, bvars, pvars, l_thread, l_stop, l_owner, l_lines, l_log,
                   l_stopped>>

\* file.readline() returns a line, or "" at EOF, or raises
thread_readline(i) ==
    /\ l_threads[i].pc = "read"
    /\ \/ /\ Len(l_lines) < MaxLines
          /\ \E line \in LinePool : l_threads' = ThreadStep(i, "line", line)
       \/ l_threads' = ThreadStep(i, "dead", NoLine)
    /\ UNCHANGED <<mvars, hvars, ovars, dvars, bvars, pvars, l_thread, l_stop, l_owner, l_lines, l_log,
                   l_stopped>>

\* the line is stripped; with ">>" in it, it is split at the first one and
\* the callback is called, on this thread; an exception of the callback ends
\* the thread
thread_handle(i) ==
    /\ l_threads[i].pc = "line"
    /\ LET line == Record(l_threads[i].line)
       IN  IF IsSub(Delimiter, line)
           THEN \E raises \in BOOLEAN :
                   /\ l_log' = Append(l_log, SplitFirst(line))
                   /\ l_lines' = Append(l_lines, [line |-> l_threads[i].line,
                                                  ended |-> raises])
                   /\ l_threads' = ThreadStep(i, IF raises THEN "dead" ELSE "loop", NoLine)
           ELSE /\ l_log' = l_log
                /\ l_lines' = Append(l_lines, [line |-> l_threads[i].line, ended |-> FALSE])
                /\ l_threads' = ThreadStep(i, "loop", NoLine)
    /\ UNCHANGED <<mvars, hvars, ovars, dvars, bvars, pvars, l_thread, l_stop, l_owner, l_stopped>>

ListenerNext ==
    \/ start
    \/ stop
    \/ stop_joined
    \/ \E i \in 1..Len(l_threads) : thread_connect(i)
    \/ \E i \in 1..Len(l_threads) : thread_loop(i)
    \/ \E i \in 1..Len(l_threads) : thread_readline(i)
    \/ \E i \in 1..Len(l_threads) : thread_handle(i)

-----------------------------------------------------------------------------
(* Properties of the HyprlandIPCListener *)

AliveThreads == {i \in 1..Len(l_threads) : l_threads[i].pc # "dead"}

Chomp(line) ==
    IF line # <<>> /\ line[Len(line)] = "\n" THEN SubSeq(line, 1, Len(line) - 1) ELSE line

\* the callbacks the records of lines call for, the record of a line given
\* by rec
RECURSIVE CallsFor(_, _)
CallsFor(lines, trimmed) ==
    IF lines = <<>> THEN <<>>
    ELSE LET raw == Head(lines).line
             rec == IF trimmed THEN Strip(raw) ELSE Chomp(raw)
         IN  (IF IsSub(Delimiter, rec) THEN <<SplitFirst(rec)>> ELSE <<>>)
             \o CallsFor(Tail(lines), trimmed)

DroppedLinesKeepThread ==
    \A i \in 1..Len(l_lines) :
        ~IsSub(Delimiter, l_lines[i].line) => ~l_lines[i].ended

\* C20, as stated: the callback is invoked once per line holding ">>", in
\* arrival order, with the text of the line before and after the first ">>";
\* a line without ">>" calls nothing and does not end the thread.
C20_RecordsAsStated ==
    /\ l_log = CallsFor(l_lines, FALSE)
    /\ DroppedLinesKeepThread

\* C20, amended: the text is that of the line with its leading and trailing
\* whitespace removed.
C20_RecordsOfTrimmedLines ==
    /\ l_log = CallsFor(l_lines, TRUE)
    /\ DroppedLinesKeepThread

\* a dropped line, then a padded record delivered trimmed
C20_Witness ==
    /\ Len(l_lines) = 2
    /\ ~IsSub(Delimiter, l_lines[1].line)
    /\ l_lines[2].line # Strip(l_lines[2].line) \o <<"\n">>
    /\ Len(l_log) = 1
    /\ l_log[1] = <<<<"a">>, <<"b">>>>

-----------------------------------------------------------------------------
(* The taskbar entries (apps.py PinnedAppGroup, running_apps.py
   RunningAppGroup): their pointer handlers and their cleanup, over the
   WindowPreviewManager *)

\* the entry of each application: a pinned one and a running one
EntryKind == [a \in PreviewApps |-> IF a = "firefox" THEN "pinned" ELSE "running"]

HoverInit ==
    /\ h_hovering = [a \in PreviewApps |-> FALSE]
    /\ h_deferred = [a \in PreviewApps |-> FALSE]
    /\ h_gone = [a \in PreviewApps |-> FALSE]
    /\ h_events = 0

\* is_preview_visible: a popover is held for the application and is shown
IsPreviewVisible(app_id) == \E p \in p_live : p.id = p_active[app_id]

\* a new hide timer for the application, armed when `pending` is pending
HideTimer(app_id, pending) ==
    LET used == {t.id[3] : t \in {u \in pending : u.kind = "hide" /\ u.app = app_id}}
    IN  [id |-> <<"hide", app_id, LeastUnused(used)>>, kind |-> "hide",
         app |-> app_id, windows |-> FALSE]

\* _on_hover_enter: the badge of the entry has windows, so the scheduled
\* hide is cancelled and _schedule_preview_show is deferred to the idle loop
_on_hover_enter(a) ==
    /\ h_events < MaxHover
    /\ ~h_hovering[a]
    /\ h_hovering' = [h_hovering EXCEPT ![a] = TRUE]
    /\ h_gone' = [h_gone EXCEPT ![a] = FALSE]
    /\ p_timers' = SourceRemove(p_timers, p_hide[a])
    /\ p_hide' = [p_hide EXCEPT ![a] = Absent]
    /\ h_deferred' = [h_deferred EXCEPT ![a] = TRUE]
    /\ h_events' = h_events + 1
    /\ p_call' = "other"
    /\ UNCHANGED <<mvars, dvars, bvars, lvars, ovars, p_hover, p_active, p_live>>

\* _schedule_preview_show, run by the idle loop: the show is scheduled when
\* the pointer is still over the entry
_schedule_preview_show(a) ==
    /\ h_deferred[a]
    /\ h_deferred' = [h_deferred EXCEPT ![a] = FALSE]
    /\ IF h_hovering[a]
       THEN LET timeout_id == FreshTimer("show", a, p_hover[a])
            IN  /\ p_timers' = SourceRemove(p_timers, p_hover[a])
                               \cup {[id |-> timeout_id, kind |-> "show", app |-> a,
                                      windows |-> TRUE]}
                /\ p_hover' = [p_hover EXCEPT ![a] = timeout_id]
       ELSE UNCHANGED <<p_timers, p_hover>>
    /\ p_call' = "other"
    /\ UNCHANGED <<mvars, dvars, bvars, lvars, ovars, p_hide, p_active, p_live,
                   h_hovering, h_gone, h_events>>

\* _on_hover_leave: cancel_scheduled_show, then schedule_hide_preview, which
\* finds no show pending any more
_on_hover_leave(a) ==
    /\ h_events < MaxHover
    /\ h_hovering[a]
    /\ h_hovering' = [h_hovering EXCEPT ![a] = FALSE]
    /\ h_gone' = [h_gone EXCEPT ![a] = TRUE]
    /\ LET pending == SourceRemove(SourceRemove(p_timers, p_hover[a]), p_hide[a])
           t       == HideTimer(a, pending)
       IN  /\ p_timers' = pending \cup {t}
           /\ p_hide' = [p_hide EXCEPT ![a] = t.id]
    /\ p_hover' = [p_hover EXCEPT ![a] = Absent]
    /\ h_events' = h_events + 1
    /\ p_call' = "other"
    /\ UNCHANGED <<mvars, dvars, bvars, lvars, ovars, p_active, p_live, h_deferred>>

\* _handle_click, _on_button_pressed: a click on the entry hides the preview
\* that is visible
entry_clicked(a) ==
    /\ h_events < MaxHover
    /\ h_hovering[a]
    /\ IF IsPreviewVisible(a)
       THEN HidePreviewForApp(a)
       ELSE UNCHANGED <<p_active, p_live>>
    /\ h_events' = h_events + 1
    /\ p_call' = "other"
    /\ UNCHANGED <<mvars, dvars, bvars, lvars, ovars, p_hover, p_hide, p_timers,
                   h_hovering, h_deferred, h_gone>>

\* RunningAppGroup.cleanup hides the preview that is visible;
\* PinnedAppGroup.cleanup does not
CleanupHides(kind) == kind = "running"

\* cleanup of the entry when the bar rebuilds its entries: the scheduled show
\* and hide are cancelled.  The widget that takes its place is not hovered
\* until the pointer enters it; the deferred call of the old widget finds no
\* root and schedules nothing.
entry_cleanup(a) ==
    /\ h_events < MaxHover
    /\ p_timers' = SourceRemove(SourceRemove(p_timers, p_hover[a]), p_hide[a])
    /\ p_hover' = [p_hover EXCEPT ![a] = Absent]
    /\ p_hide' = [p_hide EXCEPT ![a] = Absent]
    /\ IF CleanupHides(EntryKind[a]) /\ IsPreviewVisible(a)
       THEN HidePreviewForApp(a)
       ELSE UNCHANGED <<p_active, p_live>>
    /\ h_hovering' = [h_hovering EXCEPT ![a] = FALSE]
    /\ h_deferred' = [h_deferred EXCEPT ![a] = FALSE]
    /\ h_events' = h_events + 1
    /\ p_call' = "other"
    /\ UNCHANGED <<mvars, dvars, bvars, lvars, ovars, h_gone>>

\* the timers of the preview manager that are due
HoverTimers ==
    \/ \E t \in p_timers : _show_preview_timeout(t)
    \/ \E t \in p_timers : _hide_preview_timeout(t)

\* the idle callbacks that are due
HoverIdle == \E a \in PreviewApps : _schedule_preview_show(a)

HoverNext ==
    \/ \E a \in PreviewApps : _on_hover_enter(a)
    \/ \E a \in PreviewApps : _on_hover_leave(a)
    \/ \E a \in PreviewApps : entry_clicked(a)
    \/ \E a \in PreviewApps : entry_cleanup(a)
    \/ HoverIdle
    \/ HoverTimers

-----------------------------------------------------------------------------
(* Properties of the taskbar entries *)

\* C27: once the pointer has left the entry of an application, the popovers
\* of that application are closed in the end unless the pointer comes back,
\* also when the entry is cleaned up while its hide timer is pending.
C27_PreviewClosesAfterLeave ==
    \A a \in PreviewApps : h_gone[a] ~> (~h_gone[a] \/ LiveOf(a) = {})

-----------------------------------------------------------------------------
(* AppOrderManager (apps.py): the stored order of the pinned applications *)

\* the application ids that occur in the file and in the pinned list
OrderIds == {"firefox", "code", "vim"}

\* the lists of strings of length at most n over S
RECURSIVE ListsOver(_, _)
ListsOver(S, n) ==
    IF n = 0 THEN {<<>>}
    ELSE LET shorter == ListsOver(S, n - 1)
         IN  shorter \cup {Append(q, x) : q \in {r \in shorter : Len(r) = n - 1}, x \in S}

\* what the file at _config_path holds: JSON that is a list of strings, or
\* anything else (no file, no JSON, another value)
FileContents ==
    {[ok |-> TRUE, data |-> q] : q \in ListsOver(OrderIds, MaxOrder)}
    \cup {[ok |-> FALSE, data |-> <<>>]}

\* applications.pinned: applications by id, each once
PinnedLists == DistinctSeqs(OrderIds, MaxPinned)

IdSet(q) == {q[i] : i \in 1..Len(q)}

\* _load_order: a list of strings is taken as it is, anything else gives []
LoadOrder(file) == IF file.ok THEN file.data ELSE <<>>

\* for app in pinned_apps: if app.id not in self._order: self._order.append(app.id)
RECURSIVE AppendMissing(_, _)
AppendMissing(order, pinned) ==
    IF pinned = <<>> THEN order
    ELSE AppendMissing(IF Head(pinned) \in IdSet(order) THEN order
                       ELSE Append(order, Head(pinned)),
                       Tail(pinned))

\* the body of sync_with_pinned_apps
SyncWithPinnedApps(order, pinned) ==
    AppendMissing(SelectSeq(order, LAMBDA x : x \in IdSet(pinned)), pinned)

\* the body of get_ordered_apps: the applications of the order that are
\* pinned, one per entry of the order, then the pinned ones not yet listed
GetOrderedApps(order, pinned) ==
    AppendMissing(SelectSeq(order, LAMBDA x : x \in IdSet(pinned)), pinned)

\* list.remove(x): the first occurrence is removed; ValueError is passed over
RemoveFirst(q, x) ==
    IF x \notin IdSet(q) THEN q
    ELSE LET i == CHOOSE i \in 1..Len(q) : q[i] = x /\ \A j \in 1..(i - 1) : q[j] # x
         IN  SubSeq(q, 1, i - 1) \o SubSeq(q, i + 1, Len(q))

\* list.insert(list.index(target), x), or append when target is not there
InsertBefore(q, target, x) ==
    IF target \notin IdSet(q) THEN Append(q, x)
    ELSE LET i == CHOOSE i \in 1..Len(q) : q[i] = target /\ \A j \in 1..(i - 1) : q[j] # target
         IN  SubSeq(q, 1, i - 1) \o <<x>> \o SubSeq(q, i, Len(q))

NoOrderCall == [op |-> "none", pinned |-> <<>>, result |-> <<>>]

OrderInitWith(file) ==
    /\ o_file = file
    /\ o_order = LoadOrder(file)
    /\ o_save_scheduled = FALSE
    /\ o_call = NoOrderCall

\* AppOrderManager.__init__
OrderInit == \E file \in FileContents : OrderInitWith(file)

OrderIdle == OrderInitWith([ok |-> FALSE, data |-> <<>>])

\* the bar starts again: a new AppOrderManager loads the file
_load_order ==
    /\ o_order' = LoadOrder(o_file)
    /\ o_save_scheduled' = FALSE
    /\ o_call' = [NoOrderCall EXCEPT !.op = "load"]
    /\ UNCHANGED <<mvars, dvars, bvars, pvars, lvars, hvars, o_file>>

\* sync_with_pinned_apps, with the save_order() that ends it
sync_with_pinned_apps(pinned) ==
    /\ o_order' = SyncWithPinnedApps(o_order, pinned)
    /\ o_save_scheduled' = TRUE
    /\ o_call' = [op |-> "sync", pinned |-> pinned, result |-> <<>>]
    /\ UNCHANGED <<mvars, dvars, bvars, pvars, lvars, hvars, o_file>>

get_ordered_apps(pinned) ==
    /\ o_call' = [op |-> "get", pinned |-> pinned,
                  result |-> GetOrderedApps(o_order, pinned)]
    /\ UNCHANGED <<mvars, dvars, bvars, pvars, lvars, hvars, o_order, o_save_scheduled, o_file>>

\* reorder, with the save_order() that ends it; nothing happens when the two
\* ids are the same
reorder(dragged_app_id, target_app_id) ==
    /\ IF dragged_app_id = target_app_id
       THEN UNCHANGED <<o_order, o_save_scheduled>>
       ELSE /\ o_order' = InsertBefore(RemoveFirst(o_order, dragged_app_id),
                                       target_app_id, dragged_app_id)
            /\ Len(o_order') <= MaxOrder + MaxPinned
            /\ o_save_scheduled' = TRUE
    /\ o_call' = [op |-> "reorder", pinned |-> <<>>, result |-> <<>>]
    /\ UNCHANGED <<mvars, dvars, bvars, pvars, lvars, hvars, o_file>>

\* _perform_save, run by the idle loop: the order is written, unless the
\* write fails
_perform_save ==
    /\ o_save_scheduled
    /\ o_save_scheduled' = FALSE
    /\ \E written \in BOOLEAN :
          o_file' = IF written THEN [ok |-> TRUE, data |-> o_order] ELSE o_file
    /\ UNCHANGED <<mvars, dvars, bvars, pvars, lvars, hvars, o_order, o_call>>

OrderNext ==
    \/ _load_order
    \/ \E pinned \in PinnedLists : sync_with_pinned_apps(pinned)
    \/ \E pinned \in PinnedLists : get_ordered_apps(pinned)
    \/ \E d \in OrderIds, t \in OrderIds : reorder(d, t)
    \/ _perform_save

-----------------------------------------------------------------------------
(* Properties of the AppOrderManager *)

\* q lists every element of S once and nothing else
ListsOnce(q, S) == IdSet(q) = S /\ Len(q) = Cardinality(S)

\* C29: get_ordered_apps returns every pinned application exactly once, and
\* after sync_with_pinned_apps the stored order lists exactly the pinned
\* application ids, each once, whatever list of strings was loaded.
C29_OrderIsPermutation ==
    /\ o_call.op = "get" => ListsOnce(o_call.result, IdSet(o_call.pinned))
    /\ o_call.op = "sync" => ListsOnce(o_order, IdSet(o_call.pinned))

-----------------------------------------------------------------------------
(* Properties of the timers of the detector and of the preview manager *)

\* the handles the preview manager stores are those of pending timers
PreviewHandlesPending ==
    \A a \in PreviewApps :
        /\ p_hover[a] # Absent => \E t \in p_timers : t.id = p_hover[a] /\ t.kind = "show"
        /\ p_hide[a] # Absent => \E t \in p_timers : t.id = p_hide[a] /\ t.kind = "hide"

\* C23: a timer is cancelled only while it is pending: whenever the detector
\* is about to cancel the timer of its handle, and whenever no handler is in
\* progress, the handle it stores is that of a timer that has neither fired
\* nor been cancelled; the same holds for the show and hide handles of the
\* preview manager.
C23_TimersCancelledWhilePending ==
    /\ (AboutToCancel(pc) \/ AboutToCancel(lt_pc)) => update_timeout_id \in timers
    /\ (pc = "idle" /\ ~InSchedule(lt_pc) /\ update_timeout_id # 0)
          => update_timeout_id \in timers
    /\ PreviewHandlesPending

-----------------------------------------------------------------------------
(* The specifications *)

MatcherQuiet ==
    /\ m_apps = <<>>
    /\ m_win = NoWindow
    /\ m_list = <<>>
    /\ MatcherIdle

Init == DetectorInit /\ MatcherQuiet /\ BadgeIdle /\ PreviewInit /\ ListenerInit /\ HoverInit /\ OrderIdle

Next ==
    \/ \E cb \in Callbacks : subscribe(cb)
    \/ \E cb \in Callbacks : unsubscribe(cb)
    \/ unsubscribe_joined
    \/ cleanup
    \/ cleanup_joined
    \/ get_current_state
    \/ \E w \in Addresses : _on_window_added(w)
    \/ \E w \in Addresses : _on_window_changed(w)
    \/ schedule_test
    \/ schedule_remove
    \/ schedule_add
    \/ schedule_store
    \/ \E t \in timers : _detect_window_state_and_notify(t)
    \/ \E cb \in Callbacks : _notify_subscribers(cb)
    \/ notify_done
    \/ listener_connect
    \/ listener_loop
    \/ listener_readline
    \/ listener_schedule_test
    \/ listener_schedule_remove
    \/ listener_schedule_add
    \/ listener_schedule_store

\* the detector with its listener thread
Spec == Init /\ [][Next]_vars

NextReentrant ==
    \/ Next
    \/ \E cb \in Callbacks, other \in Callbacks : notify_unsubscribing(cb, other)

\* the detector with subscribers that unsubscribe from inside their callback
SpecReentrant == Init /\ [][NextReentrant]_vars

\* the detector under the scheduling of its two threads
SpecLive ==
    /\ Init /\ [][Next]_vars
    /\ WF_vars(LoopJoins) /\ WF_vars(LoopHandlers) /\ SF_vars(LoopTimers)
    /\ WF_vars(ListenerThread)

InitMatcher == MatcherInit /\ DetectorIdle /\ BadgeIdle /\ PreviewInit /\ ListenerInit /\ HoverInit /\ OrderIdle

\* the WindowMatcher functions applied to drawn inputs
SpecMatcher == InitMatcher /\ [][MatcherNext]_vars

InitBadge == BadgeInit /\ MatcherQuiet /\ DetectorIdle /\ PreviewInit /\ ListenerInit /\ HoverInit /\ OrderIdle

\* the badge counter called on the states the detector publishes
SpecBadge == InitBadge /\ [][BadgeNext]_vars

InitPreview == PreviewInit /\ MatcherQuiet /\ DetectorIdle /\ BadgeIdle /\ ListenerInit /\ HoverInit /\ OrderIdle

\* the preview manager under the calls of the taskbar entries and its timers
SpecPreview == InitPreview /\ [][PreviewNext]_vars

InitListener == ListenerInit /\ MatcherQuiet /\ DetectorIdle /\ BadgeIdle /\ PreviewInit /\ HoverInit /\ OrderIdle

InitHover == PreviewInit /\ HoverInit /\ MatcherQuiet /\ DetectorIdle /\ BadgeIdle /\ ListenerInit /\ OrderIdle

\* the taskbar entries under pointer events, rebuilds, idle callbacks and
\* the timers of the preview manager
SpecHover == InitHover /\ [][HoverNext]_vars /\ WF_vars(HoverIdle) /\ WF_vars(HoverTimers)

InitOrder == OrderInit /\ HoverInit /\ PreviewInit /\ MatcherQuiet /\ DetectorIdle /\ BadgeIdle /\ ListenerInit

\* the order manager under the calls of the bar and its deferred save
SpecOrder == InitOrder /\ [][OrderNext]_vars

\* one listener with its owner, its threads and its socket
SpecListener == InitListener /\ [][ListenerNext]_vars

====
